---- MODULE Spec2Model ----
(***************************************************************************)
(* Frame decoder and action resolver of the ADEO / Lexman remote control   *)
(* (class AdeoRemote).  The model follows the decoder of the extended      *)
(* remote device: handleFrame, handleManufacturerFrame,                    *)
(* handleColorControlFrame, parseButtonWithContext, parseButtonId,         *)
(* determineGreenButtonFromHistory, parseColorControlCommand,              *)
(* triggerSceneButton and triggerAction.                                   *)
(*                                                                         *)
(* Conventions.  A frame is the Buffer the transport hands to handleFrame, *)
(* a sequence of bytes; JavaScript index i is TLA+ index i + 1.  A Buffer  *)
(* has no cmdId property, so frame.cmdId is undefined.  The JavaScript     *)
(* values undefined and null are modelled by Undefined (for numbers) and   *)
(* NoAction (for action names).                                            *)
(*                                                                         *)
(* Specifications.  Spec: runs of frames and clock steps of the extended   *)
(* device.  SpecDecode: one frame from the wide alphabets.  SpecLegacy:    *)
(* one frame, a Buffer or an object {cmdId, data}, to the extended device  *)
(* or to the basic device of drivers/ZBEK-26.  SpecCluster: runs of        *)
(* cluster commands, to the bound clusters of an ADEO remote or to the     *)
(* command listeners of a Lexman remote (class LexmanRemoteDevice).        *)
(* SpecLifecycle: calls of the installed handler before, during and after  *)
(* onDeleted.  SpecPeers: green presses on two devices of one application. *)
(* SpecClock: green presses while the wall clock is stepped forward and    *)
(* set back.  SpecSticky: runs of up to MaxRun green presses.  SpecInit:    *)
(* onNodeInit with a step that fails, then frames and onDeleted.           *)
(* SpecManager: one device registered with the DeviceManager of the full   *)
(* application, its events and a command with retries.  SpecOnOff: calls   *)
(* of an OnOffBoundCluster with handlers that may throw, from histories    *)
(* at and near the cap.                                                    *)
(***************************************************************************)
EXTENDS Integers, Sequences, FiniteSets, TLC

VARIABLES
    now,             \* Date.now(), in milliseconds
    lastButtonPress, \* this.lastButtonPress: the recency cache of the resolver
    deviceState,     \* this.deviceState
    app,             \* which application object this.homey.app is
    last,            \* the frame handled last: endpoint, cluster, bytes
    emitted,         \* the trigger cards fired while handling that frame
    forwarded,       \* calls of the original handler while handling that frame
    log,             \* the cards the ADEO device fired so far, with their data
    lastCommand,     \* the cluster command handled last, if a command was
    commandHistory,  \* OnOffBoundCluster._commandHistory
    buttonPressed,   \* tokens of the button_pressed card fired by that command
    driver,          \* which device class the paired device runs
    lifecycle,       \* where onDeleted stands, and what it has undone
    thrown,          \* whether the last call of handleFrame threw
    peer,            \* a second device instance: its cache and its state
    monotonic,       \* time as it really passed, and when the cache was written
    init,            \* how onNodeInit of the remote device ended
    manager,         \* the DeviceManager, one device, and the app's flow triggers
    snapshot,        \* what getCommandHistory returned last
    onOff            \* an OnOffBoundCluster: its handlers and its last call

vars == <<now, lastButtonPress, deviceState, app, last, emitted, forwarded,
          log, lastCommand, commandHistory, buttonPressed, driver,
          lifecycle, thrown, peer, monotonic, init, manager, snapshot, onOff>>

----------------------------------------------------------------------------
(* Bounds of the model *)

MaxNow == 3000
MaxPresses == 2

(* Program constants *)

MANUFACTURER_CLUSTER == 65024
COLOR_CONTROL_CLUSTER == 768
SCENES_CLUSTER == 5
StickyWindowMs == 2000
MinManufacturerLength == 6

Undefined == -1
NoAction == "none"

Byte == 0 .. 255

----------------------------------------------------------------------------
(* Input alphabets.  The narrow ones feed the runs of several frames, and  *)
(* hold a byte on each side of every branch of the decoders; the wide ones *)
(* feed the decoding of a single frame and hold every byte value where the *)
(* decoders look at it.                                                    *)

ClockSteps == {1000, 2000}

IdBytes == {0, 5, 6, 25}
ParamBytes == {2, 5}
ContextBytes == {1, 0}
CmdBytes == {76, 7}
DirectionBytes == {3, 4}
ButtonBytes == {10, 14}
FillBytes == {0, 10, 13}
WideParamBytes == {0, 2, 5, 7, 76, 255}
WideContextBytes == {0, 1, 2, 3, 255}
WideDirectionBytes == {0, 1, 2, 3, 4, 255}

Fill(n, b) == [i \in 1 .. n |-> b]

RECURSIVE Words(_, _)
Words(n, bytes) ==
    IF n = 0 THEN {<< >>}
    ELSE {<<b>> \o w : b \in bytes, w \in Words(n - 1, bytes)}

ManufacturerFramesOver(buttons, short) ==
    short \cup
    {<<0, 1, 0, 0, 0, b>> : b \in buttons} \cup
    {<<0, 1, 0, 0, 0, b, 2>> : b \in buttons}

StructuredFramesOver(ids, params, contexts) ==
    {<<1, id, p, c>> : id \in ids, p \in params, c \in contexts}

LegacyFramesOver(cmds, directions) ==
    {<< >>} \cup {<<c>> : c \in cmds} \cup
    {<<c, d>> : c \in cmds, d \in directions} \cup
    {<<c, d, 0, 0>> : c \in cmds \ {1}, d \in directions \ {4}}

ManufacturerFrames ==
    ManufacturerFramesOver(ButtonBytes, {Fill(n, 10) : n \in {0, 5}})

StructuredFrames == StructuredFramesOver(IdBytes, ParamBytes, ContextBytes)

LegacyFrames == LegacyFramesOver(CmdBytes, DirectionBytes)

ColorControlFrames == StructuredFrames \cup LegacyFrames

WideManufacturerFrames ==
    ManufacturerFramesOver(Byte, UNION {Words(n, FillBytes) : n \in 0 .. 5})

WideColorControlFrames ==
    StructuredFramesOver(Byte, WideParamBytes, WideContextBytes)
    \cup LegacyFramesOver(Byte, WideDirectionBytes)

OtherFrames == {<<1, 5, 2, 1>>}
Endpoints == {1, 2}
OtherClusters == {SCENES_CLUSTER}

----------------------------------------------------------------------------
(* The trigger sink *)

SceneCards ==
    {"pressed_scene_1", "pressed_scene_2", "pressed_scene_3", "pressed_scene_4"}

TriggerCards ==
    SceneCards \cup
    {"pressed_on", "pressed_off",
     "pressed_brightness_up", "pressed_brightness_down",
     "pressed_green_up", "pressed_green_down",
     "pressed_green_left", "pressed_green_right",
     "pressed_red_up", "pressed_red_down",
     "pressed_color_left", "pressed_color_right",
     "pressed_color_up", "pressed_color_down", "pressed_color_center"}

AppFlowCards ==
    {"button_pressed", "pressed_on", "pressed_off",
     "pressed_brightness_up", "pressed_brightness_down"} \cup SceneCards

SceneAction(sceneId) ==
    CASE sceneId = 1 -> "pressed_scene_1"
      [] sceneId = 2 -> "pressed_scene_2"
      [] sceneId = 3 -> "pressed_scene_3"
      [] sceneId = 4 -> "pressed_scene_4"
      [] OTHER -> "pressed_scene_other"

----------------------------------------------------------------------------
(* State after a successful onNodeInit *)

NoPress ==
    [set |-> FALSE, buttonId |-> 0, param |-> 0, action |-> NoAction,
     timestamp |-> 0]

NullButtonPress ==
    [type |-> "null", sceneId |-> 0, actionId |-> NoAction, timestamp |-> 0,
     data |-> << >>]

InitialDeviceState ==
    [isInitialized |-> TRUE, lastButtonPress |-> NullButtonPress,
     buttonsPressed |-> 0, errors |-> << >>]

NoFrame == [endpointId |-> 0, clusterId |-> 0, frame |-> << >>]

(* A parsed command: a frame object {cmdId, data} or the command a bound    *)
(* cluster or a cluster listener receives, with the payload fields read.   *)
NoCommand ==
    [cluster |-> "none", command |-> "none", cmdId |-> Undefined,
     hasData |-> FALSE, data |-> << >>, mode |-> "none",
     stepMode |-> Undefined, sceneId |-> Undefined, hue |-> Undefined,
     colorTemperature |-> Undefined, moveMode |-> Undefined]

(* What the constructors leave in the variables the frame decoders do not  *)
(* touch.                                                                  *)
(* A second instance of the class, after its onNodeInit *)
NoPeer == [lbp |-> NoPress, ds |-> InitialDeviceState]

(* After onNodeInit: this.deviceState is set, node.handleFrame is          *)
(* this.handleFrame (installed) and this.originalHandleFrame is what       *)
(* node.handleFrame was before.                                            *)
(* cached remembers what the recency cache held when onDeleted ended.     *)
Ready ==
    [phase |-> "ready", installed |-> TRUE, hasOriginal |-> TRUE,
     stateNull |-> FALSE, cached |-> NoPress]

(* onNodeInit has run to its end *)
Initialized == [ran |-> TRUE, failedAt |-> "none", raised |-> "none"]

(* No call of executeDeviceCommand is under way *)
NoExec ==
    [pc |-> "idle", isFunction |-> TRUE, attempt |-> 0, invoked |-> 0,
     failed |-> << >>, waits |-> 0, outcome |-> "none"]

(* A DeviceManager after its constructor, and a device it has not seen:    *)
(* the three maps are empty and nothing listens to the device.             *)
NoManager ==
    [registered |-> FALSE, driverId |-> "ZBEK-4", hasState |-> FALSE,
     interactions |-> 0, available |-> TRUE, hasErrors |-> FALSE,
     errors |-> << >>, managerListeners |-> 0, appListeners |-> 0,
     flows |-> 0, event |-> "none", exec |-> NoExec]

NoSnapshot == [taken |-> FALSE, records |-> << >>, shared |-> FALSE]

NoOnOff == [onToggle |-> FALSE, issued |-> 0, command |-> "none",
              raised |-> FALSE, outcome |-> "none", errorsLogged |-> 0]

InitRest ==
    /\ log = << >>
    /\ lastCommand = NoCommand
    /\ commandHistory = << >>
    /\ buttonPressed = << >>
    /\ lifecycle = Ready
    /\ thrown = FALSE
    /\ peer = NoPeer
    /\ monotonic = [now |-> now, stamp |-> 0]
    /\ init = Initialized
    /\ manager = NoManager
    /\ snapshot = NoSnapshot
    /\ onOff = NoOnOff

Init ==
    /\ now = 0
    /\ lastButtonPress = NoPress
    /\ deviceState = InitialDeviceState
    /\ app \in {"full", "minimal"}
    /\ last = NoFrame
    /\ emitted = << >>
    /\ forwarded = 0
    /\ InitRest
    /\ driver = "extended"

----------------------------------------------------------------------------
(* ActionEmitter.  A device is the triple of the fields a handler can      *)
(* change: lbp (this.lastButtonPress), ds (this.deviceState) and out (the  *)
(* cards fired so far in this call).                                       *)

(* Variant of triggerAction: the card is triggered twice. *)
triggerAction_twice(d, actionId, actionData) ==
    LET ds == [d.ds EXCEPT
                 !.lastButtonPress =
                     [type |-> "action", sceneId |-> 0, actionId |-> actionId,
                      timestamp |-> now, data |-> actionData],
                 !.buttonsPressed = @ + 1]
    IN  IF actionId \in TriggerCards
        THEN [d EXCEPT !.ds = ds, !.out = @ \o <<actionId, actionId>>,
                       !.ev = @ \o <<actionData, actionData>>]
        ELSE [d EXCEPT !.ds = ds]

triggerAction(d, actionId, actionData) ==
    LET ds == [d.ds EXCEPT
                 !.lastButtonPress =
                     [type |-> "action", sceneId |-> 0, actionId |-> actionId,
                      timestamp |-> now, data |-> actionData],
                 !.buttonsPressed = @ + 1]
    IN  IF actionId \in TriggerCards
        THEN [d EXCEPT !.ds = ds, !.out = Append(@, actionId),
                       !.ev = Append(@, actionData)]
        ELSE [d EXCEPT !.ds = ds]

appTriggerSceneButton(d, sceneId) ==
    IF SceneAction(sceneId) \in AppFlowCards \cap TriggerCards
    THEN [d EXCEPT !.out = Append(@, SceneAction(sceneId)),
                   !.ev = Append(@, <<sceneId>>)]
    ELSE d

(* Variant of triggerSceneButton: the direct trigger follows the app's. *)
triggerSceneButton_both(d, sceneId, buttonData) ==
    LET ds == [d.ds EXCEPT
                 !.lastButtonPress =
                     [type |-> "scene", sceneId |-> sceneId,
                      actionId |-> NoAction, timestamp |-> now,
                      data |-> buttonData],
                 !.buttonsPressed = @ + 1]
        d1 == [d EXCEPT !.ds = ds]
    IN  triggerAction(IF app = "full" THEN appTriggerSceneButton(d1, sceneId)
                      ELSE d1,
                      SceneAction(sceneId), buttonData)

triggerSceneButton(d, sceneId, buttonData) ==
    LET ds == [d.ds EXCEPT
                 !.lastButtonPress =
                     [type |-> "scene", sceneId |-> sceneId,
                      actionId |-> NoAction, timestamp |-> now,
                      data |-> buttonData],
                 !.buttonsPressed = @ + 1]
        d1 == [d EXCEPT !.ds = ds]
    IN  IF app = "full"
        THEN appTriggerSceneButton(d1, sceneId)
        ELSE triggerAction(d1, SceneAction(sceneId), buttonData)

----------------------------------------------------------------------------
(* ManufacturerFrameParser *)

(* Variant of sceneMap: the table read one identifier too late. *)
sceneMap_shifted(buttonId) ==
    CASE buttonId = 11 -> 1
      [] buttonId = 12 -> 2
      [] buttonId = 13 -> 3
      [] buttonId = 14 -> 4
      [] OTHER -> 0

sceneMap(buttonId) ==
    CASE buttonId = 10 -> 1
      [] buttonId = 11 -> 2
      [] buttonId = 12 -> 3
      [] buttonId = 13 -> 4
      [] OTHER -> 0

(* Variant of handleManufacturerFrame: length test and index one too low. *)
handleManufacturerFrame_short(d, frame) ==
    IF Len(frame) >= MinManufacturerLength - 1
    THEN LET buttonId == frame[5]
             action == frame[2]
             sceneId == sceneMap(buttonId)
         IN  IF sceneId # 0
             THEN triggerSceneButton(d, sceneId, <<buttonId, action>>)
             ELSE d
    ELSE d

handleManufacturerFrame(d, frame) ==
    IF Len(frame) >= MinManufacturerLength
    THEN LET buttonId == frame[6]
             action == IF Len(frame) > 6 THEN frame[7] ELSE frame[2]
             sceneId == sceneMap(buttonId)
         IN  IF sceneId # 0
             THEN triggerSceneButton(d, sceneId, <<buttonId, action>>)
             ELSE d
    ELSE d

----------------------------------------------------------------------------
(* ButtonIdentityResolver *)

buttonMap(buttonId) ==
    CASE buttonId = 23 -> "pressed_green_up"
      [] buttonId = 24 -> "pressed_green_down"
      [] buttonId = 25 -> "pressed_green_left"
      [] buttonId = 26 -> "pressed_green_right"
      [] buttonId = 27 -> "pressed_red_up"
      [] buttonId = 28 -> "pressed_red_down"
      [] buttonId = 29 -> "pressed_green_up"
      [] buttonId = 30 -> "pressed_green_down"
      [] buttonId = 31 -> "pressed_green_left"
      [] buttonId = 32 -> "pressed_green_right"
      [] buttonId = 33 -> "pressed_red_up"
      [] buttonId = 34 -> "pressed_red_down"
      [] buttonId = 35 -> "pressed_green_up"
      [] buttonId = 36 -> "pressed_green_down"
      [] buttonId = 37 -> "pressed_green_left"
      [] buttonId = 38 -> "pressed_green_right"
      [] buttonId = 39 -> "pressed_red_up"
      [] buttonId = 40 -> "pressed_red_down"
      [] OTHER -> NoAction

(* The result of a resolver call: the action returned and the cache left.  *)
Resolved(action, lbp) == [action |-> action, lbp |-> lbp]

(* Variant of cacheHit: an entry of exactly 2000 ms still counts as recent. *)
cacheHit_inclusive(lbp, param) ==
    /\ lbp.set
    /\ lbp.buttonId # 0
    /\ now - lbp.timestamp <= StickyWindowMs
    /\ lbp.param = param

cacheHit(lbp, param) ==
    /\ lbp.set
    /\ lbp.buttonId # 0
    /\ now - lbp.timestamp < StickyWindowMs
    /\ lbp.param = param

(* Variant of determineGreenButtonFromHistory: a hit renews the entry's    *)
(* timestamp.                                                              *)
determineGreenButtonFromHistory_renewing(lbp, buttonId, param) ==
    IF cacheHit(lbp, param)
    THEN Resolved(lbp.action, [lbp EXCEPT !.timestamp = now])
    ELSE LET action == IF buttonId % 2 = 1 THEN "pressed_green_left"
                       ELSE "pressed_green_right"
         IN  Resolved(action,
                      [set |-> TRUE, buttonId |-> buttonId, param |-> param,
                       action |-> action, timestamp |-> now])

determineGreenButtonFromHistory(lbp, buttonId, param) ==
    IF cacheHit(lbp, param)
    THEN Resolved(lbp.action, lbp)
    ELSE LET action == IF buttonId % 2 = 1 THEN "pressed_green_left"
                       ELSE "pressed_green_right"
         IN  Resolved(action,
                      [set |-> TRUE, buttonId |-> buttonId, param |-> param,
                       action |-> action, timestamp |-> now])

(* Variant of parseButtonId: even identifiers taken for the up buttons. *)
parseButtonId_evenUp(lbp, buttonId, param) ==
    IF buttonMap(buttonId) # NoAction
    THEN Resolved(buttonMap(buttonId), lbp)
    ELSE IF param = 76
    THEN Resolved(IF buttonId % 2 = 0 THEN "pressed_red_up"
                  ELSE "pressed_red_down", lbp)
    ELSE IF param = 5
    THEN Resolved(IF buttonId % 2 = 0 THEN "pressed_green_up"
                  ELSE "pressed_green_down", lbp)
    ELSE IF param = 2
    THEN determineGreenButtonFromHistory(lbp, buttonId, param)
    ELSE Resolved(NoAction, lbp)

(* Variant of parseButtonId: every other param resolved from the history. *)
parseButtonId_catchAll(lbp, buttonId, param) ==
    IF buttonMap(buttonId) # NoAction
    THEN Resolved(buttonMap(buttonId), lbp)
    ELSE IF param = 76
    THEN Resolved(IF buttonId % 2 = 1 THEN "pressed_red_up"
                  ELSE "pressed_red_down", lbp)
    ELSE IF param = 5
    THEN Resolved(IF buttonId % 2 = 1 THEN "pressed_green_up"
                  ELSE "pressed_green_down", lbp)
    ELSE determineGreenButtonFromHistory(lbp, buttonId, param)

(* Variant of parseButtonId: the up/down parity answer is remembered like  *)
(* a green left/right one.                                                 *)
parseButtonId_remembering(lbp, buttonId, param) ==
    IF buttonMap(buttonId) # NoAction
    THEN Resolved(buttonMap(buttonId), lbp)
    ELSE IF param = 76
    THEN Resolved(IF buttonId % 2 = 1 THEN "pressed_red_up"
                  ELSE "pressed_red_down", lbp)
    ELSE IF param = 5
    THEN LET action == IF buttonId % 2 = 1 THEN "pressed_green_up"
                       ELSE "pressed_green_down"
         IN  Resolved(action,
                      [set |-> TRUE, buttonId |-> buttonId, param |-> param,
                       action |-> action, timestamp |-> now])
    ELSE IF param = 2
    THEN determineGreenButtonFromHistory(lbp, buttonId, param)
    ELSE Resolved(NoAction, lbp)

parseButtonId(lbp, buttonId, param) ==
    IF buttonMap(buttonId) # NoAction
    THEN Resolved(buttonMap(buttonId), lbp)
    ELSE IF param = 76
    THEN Resolved(IF buttonId % 2 = 1 THEN "pressed_red_up"
                  ELSE "pressed_red_down", lbp)
    ELSE IF param = 5
    THEN Resolved(IF buttonId % 2 = 1 THEN "pressed_green_up"
                  ELSE "pressed_green_down", lbp)
    ELSE IF param = 2
    THEN determineGreenButtonFromHistory(lbp, buttonId, param)
    ELSE Resolved(NoAction, lbp)

(* Variant of parseButtonWithContext: the two context values exchanged. *)
parseButtonWithContext_swapped(lbp, buttonId, param, dataByte) ==
    IF param = 2 /\ dataByte = 3 THEN Resolved("pressed_green_right", lbp)
    ELSE IF param = 2 /\ dataByte = 1 THEN Resolved("pressed_green_left", lbp)
    ELSE IF param = 5 /\ dataByte = 3 THEN Resolved("pressed_green_up", lbp)
    ELSE IF param = 5 /\ dataByte = 1 THEN Resolved("pressed_green_down", lbp)
    ELSE IF param = 76 /\ dataByte = 3 THEN Resolved("pressed_red_up", lbp)
    ELSE IF param = 76 /\ dataByte = 1 THEN Resolved("pressed_red_down", lbp)
    ELSE parseButtonId(lbp, buttonId, param)

parseButtonWithContext(lbp, buttonId, param, dataByte) ==
    IF param = 2 /\ dataByte = 1 THEN Resolved("pressed_green_right", lbp)
    ELSE IF param = 2 /\ dataByte = 3 THEN Resolved("pressed_green_left", lbp)
    ELSE IF param = 5 /\ dataByte = 1 THEN Resolved("pressed_green_up", lbp)
    ELSE IF param = 5 /\ dataByte = 3 THEN Resolved("pressed_green_down", lbp)
    ELSE IF param = 76 /\ dataByte = 1 THEN Resolved("pressed_red_up", lbp)
    ELSE IF param = 76 /\ dataByte = 3 THEN Resolved("pressed_red_down", lbp)
    ELSE parseButtonId(lbp, buttonId, param)

----------------------------------------------------------------------------
(* ColorControlFrameParser, legacy command + direction classifier *)

(* Variant of parseBrightnessCommand: every direction but 2 and 3 is down. *)
parseBrightnessCommand_twoWay(direction) ==
    IF direction = 3 \/ direction = 2 THEN "pressed_brightness_up"
    ELSE "pressed_brightness_down"

parseBrightnessCommand(direction) ==
    IF direction = 0 \/ direction = 1 THEN "pressed_brightness_down"
    ELSE IF direction = 3 \/ direction = 2 THEN "pressed_brightness_up"
    ELSE NoAction

parseColorLeftRightCommand(direction) ==
    IF direction = 0 \/ direction = 1 THEN "pressed_color_left"
    ELSE IF direction = 3 \/ direction = 2 THEN "pressed_color_right"
    ELSE NoAction

parseColorUpDownCommand(direction) ==
    IF direction = 0 \/ direction = 1 THEN "pressed_color_down"
    ELSE IF direction = 3 \/ direction = 2 THEN "pressed_color_up"
    ELSE NoAction

parseColorCenterCommand == "pressed_color_center"

parseFallbackCommand(direction) ==
    IF direction = 0 \/ direction = 1 THEN "pressed_brightness_down"
    ELSE IF direction = 3 \/ direction = 2 THEN "pressed_brightness_up"
    ELSE NoAction

(* Variant of parseColorControlCommand: commands 3, 4 and 6 not handled. *)
parseColorControlCommand_three(cmdId, direction) ==
    CASE cmdId = 76 -> parseBrightnessCommand(direction)
      [] cmdId = 5 -> parseBrightnessCommand(direction)
      [] cmdId = 2 -> parseColorLeftRightCommand(direction)
      [] cmdId = Undefined -> parseFallbackCommand(direction)
      [] cmdId = 0 -> parseFallbackCommand(direction)
      [] OTHER -> NoAction

(* Variant of parseColorControlCommand: the fallback taken for every       *)
(* command the table does not list.                                        *)
parseColorControlCommand_fallbackAll(cmdId, direction) ==
    CASE cmdId = 76 -> parseBrightnessCommand(direction)
      [] cmdId = 5 -> parseBrightnessCommand(direction)
      [] cmdId = 2 -> parseColorLeftRightCommand(direction)
      [] cmdId = 3 -> parseColorLeftRightCommand(direction)
      [] cmdId = 4 -> parseColorUpDownCommand(direction)
      [] cmdId = 6 -> parseColorCenterCommand
      [] OTHER -> parseFallbackCommand(direction)

parseColorControlCommand(cmdId, direction) ==
    CASE cmdId = 76 -> parseBrightnessCommand(direction)
      [] cmdId = 5 -> parseBrightnessCommand(direction)
      [] cmdId = 2 -> parseColorLeftRightCommand(direction)
      [] cmdId = 3 -> parseColorLeftRightCommand(direction)
      [] cmdId = 4 -> parseColorUpDownCommand(direction)
      [] cmdId = 6 -> parseColorCenterCommand
      [] cmdId = Undefined -> parseFallbackCommand(direction)
      [] cmdId = 0 -> parseFallbackCommand(direction)
      [] OTHER -> NoAction

(* Variant of isStructured: the length alone selects the structured path. *)
isStructured_anyHead(frameBuffer) == Len(frameBuffer) >= 4

isStructured(frameBuffer) == Len(frameBuffer) >= 4 /\ frameBuffer[1] = 1

(* frame.cmdId || frameBuffer[0], for a Buffer frame *)
legacyCmdId(frameBuffer) ==
    IF Len(frameBuffer) >= 1 THEN frameBuffer[1] ELSE Undefined

(* Variant of legacyDirection: reads the first byte of the buffer. *)
legacyDirection_first(frameBuffer) ==
    IF Len(frameBuffer) >= 1 THEN frameBuffer[1] ELSE 0

(* frameBuffer[1] || 0x00 *)
legacyDirection(frameBuffer) ==
    IF Len(frameBuffer) >= 2 THEN frameBuffer[2] ELSE 0

handleColorControlFrame(d, frame) ==
    IF isStructured(frame)
    THEN LET buttonId == frame[2]
             param == frame[3]
             dataByte == frame[4]
             r == parseButtonWithContext(d.lbp, buttonId, param, dataByte)
             d1 == [d EXCEPT !.lbp = r.lbp]
         IN  IF r.action # NoAction
             THEN triggerAction(d1, r.action, <<buttonId, param, dataByte>>)
             ELSE d1
    ELSE LET cmdId == legacyCmdId(frame)
             direction == legacyDirection(frame)
             action == parseColorControlCommand(cmdId, direction)
         IN  IF action # NoAction
             THEN triggerAction(d, action, <<direction, cmdId>>)
             ELSE d

----------------------------------------------------------------------------
(* Frame routing *)

Device ==
    [lbp |-> lastButtonPress, ds |-> deviceState, out |-> << >>,
     ev |-> << >>]

(* The cards a call has fired, as log entries *)
Fired(d) == [i \in 1 .. Len(d.out) |-> [card |-> d.out[i], data |-> d.ev[i]]]

Commit(d, endpointId, clusterId, frame, fwd) ==
    /\ lastButtonPress' = d.lbp
    /\ deviceState' = d.ds
    /\ emitted' = d.out
    /\ forwarded' = fwd
    /\ last' = [endpointId |-> endpointId, clusterId |-> clusterId,
                frame |-> frame]
    /\ log' = log \o Fired(d)
    /\ lastCommand' = NoCommand
    /\ buttonPressed' = << >>
    /\ monotonic' = IF d.lbp # lastButtonPress
                    THEN [monotonic EXCEPT !.stamp = monotonic.now]
                    ELSE monotonic
    /\ UNCHANGED <<now, app, commandHistory, driver, lifecycle, thrown, peer,
                   init, manager, snapshot, onOff>>

(* Variant of handleFrame: a frame that follows a frame which fired a     *)
(* card is parsed, and what it fires is withheld.                          *)
handleFrame_suppressing(endpointId, clusterId, frame) ==
    LET quiet(d) == IF emitted # << >>
                    THEN [d EXCEPT !.out = << >>, !.ev = << >>]
                    ELSE d
    IN  /\ deviceState.buttonsPressed < MaxPresses
        /\ IF endpointId = 1 /\ clusterId = MANUFACTURER_CLUSTER
           THEN Commit(quiet(handleManufacturerFrame(Device, frame)),
                       endpointId, clusterId, frame, 0)
           ELSE IF endpointId = 1 /\ clusterId = COLOR_CONTROL_CLUSTER
           THEN Commit(quiet(handleColorControlFrame(Device, frame)),
                       endpointId, clusterId, frame, 0)
           ELSE Commit(Device, endpointId, clusterId, frame, 1)

handleFrame(endpointId, clusterId, frame) ==
    /\ deviceState.buttonsPressed < MaxPresses
    /\ IF endpointId = 1 /\ clusterId = MANUFACTURER_CLUSTER
       THEN Commit(handleManufacturerFrame(Device, frame),
                   endpointId, clusterId, frame, 0)
       ELSE IF endpointId = 1 /\ clusterId = COLOR_CONTROL_CLUSTER
       THEN Commit(handleColorControlFrame(Device, frame),
                   endpointId, clusterId, frame, 0)
       ELSE Commit(Device, endpointId, clusterId, frame, 1)

ManufacturerFrame ==
    \E frame \in ManufacturerFrames :
        handleFrame(1, MANUFACTURER_CLUSTER, frame)

ColorControlFrame ==
    \E frame \in ColorControlFrames :
        handleFrame(1, COLOR_CONTROL_CLUSTER, frame)

OtherFrame ==
    \E endpointId \in Endpoints,
       clusterId \in OtherClusters \cup
                     {MANUFACTURER_CLUSTER, COLOR_CONTROL_CLUSTER},
       frame \in OtherFrames :
        /\ ~(endpointId = 1 /\ clusterId \in
                {MANUFACTURER_CLUSTER, COLOR_CONTROL_CLUSTER})
        /\ handleFrame(endpointId, clusterId, frame)

(* Time passes between two frames. *)
Tick ==
    \E step \in ClockSteps :
        /\ now + step <= MaxNow
        /\ monotonic.now + step <= MaxNow
        /\ now' = now + step
        /\ monotonic' = [monotonic EXCEPT !.now = @ + step]
        /\ UNCHANGED <<lastButtonPress, deviceState, app, last, emitted,
                       forwarded, log, lastCommand, commandHistory,
                       buttonPressed, driver, lifecycle, thrown, peer,
                       init, manager, snapshot, onOff>>

(* The decoding of one frame, drawn from the wide alphabets, by a device  *)
(* that has handled at most one green press before.                       *)

PressedGreen(buttonId, action) ==
    [set |-> TRUE, buttonId |-> buttonId, param |-> 2, action |-> action,
     timestamp |-> 0]

AfterGreen(buttonId, action) ==
    [InitialDeviceState EXCEPT
       !.lastButtonPress =
           [type |-> "action", sceneId |-> 0, actionId |-> action,
            timestamp |-> 0, data |-> <<buttonId, 2, 0>>],
       !.buttonsPressed = 1]

InitDecode ==
    /\ now \in {1000, 2000}
    /\ \/ lastButtonPress = NoPress /\ deviceState = InitialDeviceState
       \/ \E id \in {0, 5, 6} :
            LET action == IF id % 2 = 1 THEN "pressed_green_left"
                          ELSE "pressed_green_right"
            IN  /\ lastButtonPress = PressedGreen(id, action)
                /\ deviceState = AfterGreen(id, action)
    /\ app \in {"full", "minimal"}
    /\ last = NoFrame
    /\ emitted = << >>
    /\ forwarded = 0
    /\ InitRest
    /\ driver = "extended"

DecodeManufacturerFrame ==
    /\ last = NoFrame
    /\ \E frame \in WideManufacturerFrames :
           handleFrame(1, MANUFACTURER_CLUSTER, frame)

DecodeColorControlFrame ==
    /\ last = NoFrame
    /\ \E frame \in WideColorControlFrames :
           handleFrame(1, COLOR_CONTROL_CLUSTER, frame)

NextDecode == DecodeManufacturerFrame \/ DecodeColorControlFrame

SpecDecode == InitDecode /\ [][NextDecode]_vars

Next == ManufacturerFrame \/ ColorControlFrame \/ OtherFrame \/ Tick

Spec == Init /\ [][Next]_vars

----------------------------------------------------------------------------
(* Frames that are not Buffers, and the basic decoder of drivers/ZBEK-26 *)

(* A frame object {cmdId, data}: either field may be missing. *)
ObjectFrame(cmdId, hasData, data) ==
    [NoCommand EXCEPT !.cluster = "colorControl", !.command = "frame",
                      !.cmdId = cmdId, !.hasData = hasData,
                      !.data = IF hasData THEN data ELSE << >>]

(* Buffer.from(frame.toString('hex'), 'hex') of a plain object: toString   *)
(* ignores its argument and yields '[object Object]', which holds no hex   *)
(* digit pair at its start, so the buffer is empty.                        *)
objectFrameBuffer(frame) == << >>

(* frame.cmdId || frameBuffer[0] *)
objectCmdId(frame, frameBuffer) ==
    IF frame.cmdId # Undefined /\ frame.cmdId # 0 THEN frame.cmdId
    ELSE legacyCmdId(frameBuffer)

(* The extended handleColorControlFrame on a frame object *)
handleColorControlObject(d, frame) ==
    LET frameBuffer == objectFrameBuffer(frame)
        cmdId == objectCmdId(frame, frameBuffer)
        direction == legacyDirection(frameBuffer)
        action == parseColorControlCommand(cmdId, direction)
    IN  IF action # NoAction
        THEN triggerAction(d, action, <<direction, cmdId>>)
        ELSE d

basicParseColorControlCommand(cmdId, direction) ==
    CASE cmdId = 76 -> IF direction = 3 THEN "pressed_brightness_up"
                       ELSE "pressed_brightness_down"
      [] cmdId = 5 -> IF direction = 3 THEN "pressed_brightness_up"
                      ELSE "pressed_brightness_down"
      [] cmdId = 2 -> IF direction = 3 THEN "pressed_color_right"
                      ELSE "pressed_color_left"
      [] OTHER -> NoAction

(* A Buffer has neither cmdId nor data: it arrives here as                 *)
(* ObjectFrame(Undefined, FALSE, << >>).                                   *)
basicHandleColorControlFrame(d, frame) ==
    IF ~frame.hasData \/ Len(frame.data) < 1 THEN d
    ELSE LET direction == frame.data[1]
             action == basicParseColorControlCommand(frame.cmdId, direction)
         IN  IF action # NoAction
             THEN triggerAction(d, action, <<direction, frame.cmdId>>)
             ELSE d

(* What a handler leaves behind when its input was a command. *)
CommitCommand(d, command, fwd) ==
    /\ lastButtonPress' = d.lbp
    /\ deviceState' = d.ds
    /\ emitted' = d.out
    /\ forwarded' = fwd
    /\ last' = NoFrame
    /\ log' = log \o Fired(d)
    /\ lastCommand' = command
    /\ buttonPressed' = << >>
    /\ UNCHANGED <<now, app, commandHistory, driver, lifecycle, thrown, peer,
                   monotonic,
                   init, manager, snapshot, onOff>>

(* handleFrame of either class on a Buffer *)
handleBufferFrame(endpointId, clusterId, frame) ==
    IF driver = "extended" THEN handleFrame(endpointId, clusterId, frame)
    ELSE /\ deviceState.buttonsPressed < MaxPresses
         /\ IF endpointId = 1 /\ clusterId = MANUFACTURER_CLUSTER
            THEN Commit(handleManufacturerFrame(Device, frame),
                        endpointId, clusterId, frame, 0)
            ELSE IF endpointId = 1 /\ clusterId = COLOR_CONTROL_CLUSTER
            THEN Commit(basicHandleColorControlFrame(
                            Device, ObjectFrame(Undefined, FALSE, << >>)),
                        endpointId, clusterId, frame, 0)
            ELSE Commit(Device, endpointId, clusterId, frame, 1)

(* handleFrame of either class on a frame object; frame.length is          *)
(* undefined, so the manufacturer parser reads nothing.                    *)
handleObjectFrame(endpointId, clusterId, frame) ==
    /\ deviceState.buttonsPressed < MaxPresses
    /\ IF endpointId = 1 /\ clusterId = MANUFACTURER_CLUSTER
       THEN CommitCommand(Device, [frame EXCEPT !.cluster = "manufacturer"],
                          0)
       ELSE IF endpointId = 1 /\ clusterId = COLOR_CONTROL_CLUSTER
       THEN IF driver = "extended"
            THEN CommitCommand(handleColorControlObject(Device, frame),
                               frame, 0)
            ELSE CommitCommand(basicHandleColorControlFrame(Device, frame),
                               frame, 0)
       ELSE CommitCommand(Device, [frame EXCEPT !.cluster = "other"], 1)

LegacyCmdIds == {0, 2, 3, 4, 5, 6, 7, 76}

LegacyDirections == {0, 1, 2, 3, 4}

LegacyBuffers ==
    LegacyFramesOver(LegacyCmdIds, LegacyDirections)
        \cup {<<c, d, e>> : c \in {76, 2}, d \in {0, 3}, e \in {0, 3}}

FrameObjects ==
    {ObjectFrame(c, h, dat) :
        c \in LegacyCmdIds \cup {Undefined}, h \in BOOLEAN,
        dat \in {<< >>} \cup {<<x>> : x \in LegacyDirections}
                  \cup {<<x, y>> : x \in {0, 3}, y \in {0, 3}}}

FrameClusters == {MANUFACTURER_CLUSTER, COLOR_CONTROL_CLUSTER, SCENES_CLUSTER}

InitLegacy ==
    /\ now = 1000
    /\ lastButtonPress = NoPress
    /\ deviceState = InitialDeviceState
    /\ app \in {"full", "minimal"}
    /\ last = NoFrame
    /\ emitted = << >>
    /\ forwarded = 0
    /\ InitRest
    /\ driver \in {"extended", "basic"}

Untouched == last = NoFrame /\ lastCommand = NoCommand

LegacyBufferFrame ==
    /\ Untouched
    /\ \E endpointId \in Endpoints, frame \in LegacyBuffers :
           handleBufferFrame(endpointId, COLOR_CONTROL_CLUSTER, frame)

LegacyObjectFrame ==
    /\ Untouched
    /\ \E endpointId \in Endpoints, clusterId \in FrameClusters,
          frame \in FrameObjects :
           handleObjectFrame(endpointId, clusterId, frame)

NextLegacy == LegacyBufferFrame \/ LegacyObjectFrame

SpecLegacy == InitLegacy /\ [][NextLegacy]_vars

----------------------------------------------------------------------------
(* Cluster commands: the bound clusters of the ADEO remote *)

maxHistorySize == 50

(* Variant of _recordCommand: a full history keeps its oldest record. *)
recordCommand_keepOldest(history, command) ==
    LET pushed == Append(history, [command |-> command, timestamp |-> now])
    IN  IF Len(pushed) > maxHistorySize
        THEN SubSeq(pushed, 1, maxHistorySize - 1) \o <<pushed[Len(pushed)]>>
        ELSE pushed

(* _recordCommand; the random id of a record is read by nothing. *)
recordCommand(history, command) ==
    LET pushed == Append(history, [command |-> command, timestamp |-> now])
    IN  IF Len(pushed) > maxHistorySize THEN Tail(pushed) ELSE pushed

(* The callbacks setupOnOffCluster binds; no onToggle is bound. *)
onSetOn(d) == triggerAction(d, "pressed_on", << >>)

(* Variant of onSetOff: fires the card of setOn. *)
onSetOff_on(d) == triggerAction(d, "pressed_on", << >>)

onSetOff(d) == triggerAction(d, "pressed_off", << >>)

(* OnOffBoundCluster.setOn, setOff and toggle *)
onOffCommand(d, command) ==
    CASE command = "setOn" -> onSetOn(d)
      [] command = "setOff" -> onSetOff(d)
      [] OTHER -> d

onStep(d, payload) ==
    LET isUp == payload.stepMode = 0
        action == IF isUp THEN "pressed_brightness_up"
                  ELSE "pressed_brightness_down"
    IN  triggerAction(d, action, <<payload.stepMode>>)

(* Variant of step: the payload reaches onStep as it arrived. *)
step_asReceived(d, payload) == onStep(d, payload)

(* LevelControlBoundCluster.step *)
step(d, payload) ==
    LET correctedPayload ==
            [payload EXCEPT !.stepMode = IF payload.mode = "up" THEN 0 ELSE 1]
    IN  onStep(d, correctedPayload)

(* Variant of onRecallScene: a scene outside 1 .. 4 is reported as scene 4. *)
onRecallScene_clamped(d, payload) ==
    triggerSceneButton(d, IF payload.sceneId \in 1 .. 4 THEN payload.sceneId
                          ELSE 4, <<payload.sceneId>>)

(* ScenesBoundCluster.recallScene and the callback setupScenesCluster binds *)
onRecallScene(d, payload) ==
    triggerSceneButton(d, payload.sceneId, <<payload.sceneId>>)

(* Variant of onMoveToHue: fires a color card. *)
onMoveToHue_firing(d, payload) ==
    triggerAction(d, "pressed_color_center", <<payload.hue>>)

(* ColorControlBoundCluster.moveToHue and moveToSaturation: the callbacks  *)
(* log the payload.                                                        *)
onMoveToHue(d, payload) == d

onMoveToSaturation(d, payload) == d

BoundCommand(cluster, command) ==
    [NoCommand EXCEPT !.cluster = cluster, !.command = command]

CommitBound(d, command, history) ==
    /\ lastButtonPress' = d.lbp
    /\ deviceState' = d.ds
    /\ emitted' = d.out
    /\ forwarded' = 0
    /\ last' = NoFrame
    /\ log' = log \o Fired(d)
    /\ lastCommand' = command
    /\ buttonPressed' = << >>
    /\ commandHistory' = history
    /\ UNCHANGED <<now, app, driver, lifecycle, thrown, peer, monotonic,
                   init, manager, snapshot, onOff>>

IsAdeo == driver \in {"extended", "basic"}

OnOffCommand ==
    /\ IsAdeo
    /\ deviceState.buttonsPressed < MaxPresses
    /\ Len(commandHistory) < MaxPresses
    /\ \E command \in {"setOn", "setOff", "toggle"} :
           CommitBound(onOffCommand(Device, command),
                       BoundCommand("onOff", command),
                       recordCommand(commandHistory, command))

StepModes == {Undefined, 0, 1, 2}

LevelControlStep ==
    /\ IsAdeo
    /\ deviceState.buttonsPressed < MaxPresses
    /\ \E mode \in {"up", "down", "none"}, stepMode \in StepModes :
           LET payload == [BoundCommand("levelControl", "step") EXCEPT
                              !.mode = mode, !.stepMode = stepMode]
           IN  CommitBound(step(Device, payload), payload, commandHistory)

SceneIds == {0, 1, 2, 3, 4, 5, 255}

ScenesRecallScene ==
    /\ IsAdeo
    /\ deviceState.buttonsPressed < MaxPresses
    /\ \E sceneId \in SceneIds :
           LET payload == [BoundCommand("scenes", "recallScene") EXCEPT
                              !.sceneId = sceneId]
           IN  CommitBound(onRecallScene(Device, payload), payload,
                           commandHistory)

Hues == {0, 16383, 16384, 32768, 49152, 65535}

ColorControlMove ==
    /\ IsAdeo
    /\ \E hue \in Hues :
           \/ LET payload == [BoundCommand("colorControl", "moveToHue")
                                 EXCEPT !.hue = hue]
              IN  CommitBound(onMoveToHue(Device, payload), payload,
                              commandHistory)
           \/ LET payload ==
                      [BoundCommand("colorControl", "moveToSaturation")
                          EXCEPT !.hue = hue]
              IN  CommitBound(onMoveToSaturation(Device, payload), payload,
                              commandHistory)

----------------------------------------------------------------------------
(* Cluster commands: the listeners of the Lexman remote *)

Button(n) ==
    CASE n = 1 -> "button_1"
      [] n = 2 -> "button_2"
      [] n = 3 -> "button_3"
      [] n = 4 -> "button_4"
      [] OTHER -> "button_n"

Min(a, b) == IF a < b THEN a ELSE b

getButtonFromHue(hue) ==
    IF hue = Undefined THEN NoAction
    ELSE IF hue >= 0 /\ hue < 16384 THEN Button(1)
    ELSE IF hue >= 16384 /\ hue < 32768 THEN Button(2)
    ELSE IF hue >= 32768 /\ hue < 49152 THEN Button(3)
    ELSE Button(4)

(* LexmanRemoteDevice.triggerButtonPressed and                             *)
(* LexmanRemoteDriver.triggerButtonPressed: one trigger of the             *)
(* button_pressed card with the tokens.                                    *)
triggerButtonPressed(buttonId, command) ==
    <<[button |-> buttonId, command |-> command]>>

(* Variant of onScenesCommand: the scene id is the button number. *)
onScenesCommand_direct(command) ==
    IF command.command = "recallScene"
    THEN IF command.sceneId # Undefined
         THEN triggerButtonPressed(Button(command.sceneId), command.command)
         ELSE << >>
    ELSE IF command.command = "storeScene"
    THEN triggerButtonPressed("center", command.command)
    ELSE << >>

onScenesCommand(command) ==
    IF command.command = "recallScene"
    THEN IF command.sceneId # Undefined
         THEN triggerButtonPressed(Button(Min(command.sceneId + 1, 4)),
                                   command.command)
         ELSE << >>
    ELSE IF command.command = "storeScene"
    THEN triggerButtonPressed("center", command.command)
    ELSE << >>

HueCommands == {"enhancedMoveHue", "moveHue", "moveToHue", "enhancedMoveToHue"}

TemperatureCommands == {"moveColorTemperature", "moveToColorTemperature"}

(* Variant of onColorControlCommand: moveToHue is not a hue command. *)
onColorControlCommand_noMoveToHue(command) ==
    LET buttonId ==
            IF command.command \in HueCommands \ {"moveToHue"}
            THEN getButtonFromHue(command.hue)
            ELSE IF command.command \in TemperatureCommands
            THEN IF command.colorTemperature # Undefined
                 THEN IF command.colorTemperature < 250 THEN "left"
                      ELSE "right"
                 ELSE IF command.moveMode # Undefined
                 THEN IF command.moveMode = 0 THEN "right" ELSE "left"
                 ELSE NoAction
            ELSE NoAction
    IN  IF buttonId # NoAction
        THEN triggerButtonPressed(buttonId, command.command)
        ELSE << >>

onColorControlCommand(command) ==
    LET buttonId ==
            IF command.command \in HueCommands
            THEN getButtonFromHue(command.hue)
            ELSE IF command.command \in TemperatureCommands
            THEN IF command.colorTemperature # Undefined
                 THEN IF command.colorTemperature < 250 THEN "left"
                      ELSE "right"
                 ELSE IF command.moveMode # Undefined
                 THEN IF command.moveMode = 0 THEN "right" ELSE "left"
                 ELSE NoAction
            ELSE NoAction
    IN  IF buttonId # NoAction
        THEN triggerButtonPressed(buttonId, command.command)
        ELSE << >>

(* Number.prototype.toString(16): the hex digits of a byte, most           *)
(* significant first, without padding.                                     *)
toString16(n) == IF n < 16 THEN <<n>> ELSE <<n \div 16, n % 16>>

(* `${byte1.toString(16)}_${byte2.toString(16)}`: the two digit strings *)
manufacturerKey(byte1, byte2) == <<toString16(byte1), toString16(byte2)>>

(* The literal keys of buttonMap, as digit strings: '0d_01' is             *)
(* <<<<0, 13>>, <<0, 1>>>>.                                                *)
manufacturerButtonMap(key) ==
    CASE key = <<<<0, 13>>, <<0, 1>>>> -> "button_1"
      [] key = <<<<0, 13>>, <<0, 2>>>> -> "button_2"
      [] key = <<<<0, 13>>, <<0, 3>>>> -> "button_3"
      [] key = <<<<0, 13>>, <<0, 4>>>> -> "button_4"
      [] key = <<<<0, 14>>, <<0, 1>>>> -> "on"
      [] key = <<<<0, 14>>, <<0, 2>>>> -> "off"
      [] key = <<<<0, 15>>, <<0, 1>>>> -> "up"
      [] key = <<<<0, 15>>, <<0, 2>>>> -> "down"
      [] key = <<<<1, 0>>, <<0, 1>>>> -> "left"
      [] key = <<<<1, 0>>, <<0, 2>>>> -> "right"
      [] key = <<<<1, 1>>, <<0, 1>>>> -> "arrow_up"
      [] key = <<<<1, 1>>, <<0, 2>>>> -> "arrow_down"
      [] key = <<<<1, 2>>, <<0, 1>>>> -> "center"
      [] OTHER -> NoAction

getButtonFromManufacturerData(byte1, byte2) ==
    manufacturerButtonMap(manufacturerKey(byte1, byte2))

(* command.frame.data or command.data, a Buffer or an array, or neither *)
onManufacturerSpecificCommand(command) ==
    IF command.hasData /\ Len(command.data) >= 2
    THEN LET buttonId == getButtonFromManufacturerData(command.data[1],
                                                       command.data[2])
         IN  IF buttonId # NoAction
             THEN triggerButtonPressed(buttonId, "manufacturer_specific")
             ELSE << >>
    ELSE << >>

CommitListener(tokens, command) ==
    /\ buttonPressed' = tokens
    /\ lastCommand' = command
    /\ emitted' = << >>
    /\ forwarded' = 0
    /\ last' = NoFrame
    /\ UNCHANGED <<now, lastButtonPress, deviceState, app, log,
                   commandHistory, driver, lifecycle, thrown, peer,
                   monotonic,
                   init, manager, snapshot, onOff>>

LexmanScenesCommand ==
    /\ driver = "lexman"
    /\ \E name \in {"recallScene", "storeScene", "removeScene"},
          sceneId \in SceneIds \cup {Undefined} :
           LET command == [BoundCommand("scenes", name) EXCEPT
                              !.sceneId = sceneId]
           IN  CommitListener(onScenesCommand(command), command)

LexmanColorControlCommand ==
    /\ driver = "lexman"
    /\ \E name \in {"moveToHue", "moveHue", "moveToSaturation",
                    "moveToColorTemperature"},
          hue \in Hues \cup {Undefined},
          colorTemperature \in {Undefined, 153, 370},
          moveMode \in {Undefined, 0, 1} :
           LET command == [BoundCommand("colorControl", name) EXCEPT
                              !.hue = hue,
                              !.colorTemperature = colorTemperature,
                              !.moveMode = moveMode]
           IN  CommitListener(onColorControlCommand(command), command)

ManufacturerData ==
    {<<13>>, <<13, 1, 0>>}
    \cup {<<byte1, byte2>> : byte1 \in {1, 13, 14, 15, 16, 17, 18, 19, 208},
                             byte2 \in {0, 1, 2, 3, 4, 5, 16}}

LexmanManufacturerCommand ==
    /\ driver = "lexman"
    /\ \E hasData \in BOOLEAN, data \in ManufacturerData :
           LET command == [BoundCommand("manufacturerSpecific", "command")
                              EXCEPT !.hasData = hasData,
                                     !.data = IF hasData THEN data
                                              ELSE << >>]
           IN  CommitListener(onManufacturerSpecificCommand(command),
                              command)

InitCluster ==
    /\ now = 0
    /\ lastButtonPress = NoPress
    /\ deviceState = InitialDeviceState
    /\ app \in {"full", "minimal"}
    /\ last = NoFrame
    /\ emitted = << >>
    /\ forwarded = 0
    /\ InitRest
    /\ driver \in {"extended", "basic", "lexman"}

NextCluster ==
    \/ OnOffCommand
    \/ LevelControlStep
    \/ ScenesRecallScene
    \/ ColorControlMove
    \/ LexmanScenesCommand
    \/ LexmanColorControlCommand
    \/ LexmanManufacturerCommand

SpecCluster == InitCluster /\ [][NextCluster]_vars

----------------------------------------------------------------------------
(* The life of the device: errors of handleFrame and onDeleted *)

(* What a parser leaves when this.deviceState is null: the first statement *)
(* of triggerSceneButton and of triggerAction raises a TypeError inside    *)
(* their try, which their catch logs; what the resolver wrote before       *)
(* stays written.                                                          *)
withoutDeviceState(d, parsed) ==
    [parsed EXCEPT !.ds = d.ds, !.out = << >>, !.ev = << >>]

(* The record the catch of handleFrame pushes *)
frameHandlingError(endpointId, clusterId) ==
    [type |-> "frame_handling", timestamp |-> now, clusterId |-> clusterId,
     endpointId |-> endpointId]

MissingFrameCommand ==
    [NoCommand EXCEPT !.cluster = "frame", !.command = "missing"]

CommitCall(d, endpointId, clusterId, frame, missing, fwd, threw) ==
    /\ lastButtonPress' = d.lbp
    /\ deviceState' = d.ds
    /\ emitted' = d.out
    /\ forwarded' = fwd
    /\ last' = [endpointId |-> endpointId, clusterId |-> clusterId,
                frame |-> frame]
    /\ log' = log \o Fired(d)
    /\ lastCommand' = IF missing THEN MissingFrameCommand ELSE NoCommand
    /\ buttonPressed' = << >>
    /\ thrown' = threw
    /\ monotonic' = IF d.lbp # lastButtonPress
                    THEN [monotonic EXCEPT !.stamp = monotonic.now]
                    ELSE monotonic
    /\ UNCHANGED <<now, app, commandHistory, driver, lifecycle, peer,
                   init, manager, snapshot, onOff>>

(* The catch of handleFrame: this.deviceState.errors.push raises when      *)
(* this.deviceState is null, and nothing catches that.                     *)
handleFrameCatch(endpointId, clusterId, frame, missing, fwd) ==
    IF lifecycle.stateNull
    THEN CommitCall(Device, endpointId, clusterId, frame, missing, fwd, TRUE)
    ELSE CommitCall(
             [Device EXCEPT !.ds.errors =
                 Append(@, frameHandlingError(endpointId, clusterId))],
             endpointId, clusterId, frame, missing, fwd, FALSE)

(* Variant of handleFrameCall: the cluster alone decides the parser. *)
handleFrameCall_anyEndpoint(endpointId, clusterId, frame, missing, originalThrows) ==
    LET parsed(result) == IF lifecycle.stateNull
                          THEN withoutDeviceState(Device, result)
                          ELSE result
    IN  IF clusterId = MANUFACTURER_CLUSTER
        THEN IF missing
             THEN handleFrameCatch(endpointId, clusterId, frame, missing, 0)
             ELSE CommitCall(parsed(handleManufacturerFrame(Device, frame)),
                             endpointId, clusterId, frame, missing, 0, FALSE)
        ELSE IF clusterId = COLOR_CONTROL_CLUSTER
        THEN IF missing
             THEN handleFrameCatch(endpointId, clusterId, frame, missing, 0)
             ELSE CommitCall(parsed(handleColorControlFrame(Device, frame)),
                             endpointId, clusterId, frame, missing, 0, FALSE)
        ELSE IF lifecycle.hasOriginal
        THEN IF originalThrows
             THEN handleFrameCatch(endpointId, clusterId, frame, missing, 1)
             ELSE CommitCall(Device, endpointId, clusterId, frame, missing,
                             1, FALSE)
        ELSE CommitCall(Device, endpointId, clusterId, frame, missing, 0,
                        FALSE)

(* handleFrame in any state of the device, for a Buffer or no frame at     *)
(* all.  The log statements of handleManufacturerFrame and of              *)
(* handleColorControlFrame read frame.toString and frame.cmdId outside     *)
(* their try.  The original handler belongs to the transport and may       *)
(* throw.                                                                  *)
handleFrameCall(endpointId, clusterId, frame, missing, originalThrows) ==
    LET parsed(result) == IF lifecycle.stateNull
                          THEN withoutDeviceState(Device, result)
                          ELSE result
    IN  IF endpointId = 1 /\ clusterId = MANUFACTURER_CLUSTER
        THEN IF missing
             THEN handleFrameCatch(endpointId, clusterId, frame, missing, 0)
             ELSE CommitCall(parsed(handleManufacturerFrame(Device, frame)),
                             endpointId, clusterId, frame, missing, 0, FALSE)
        ELSE IF endpointId = 1 /\ clusterId = COLOR_CONTROL_CLUSTER
        THEN IF missing
             THEN handleFrameCatch(endpointId, clusterId, frame, missing, 0)
             ELSE CommitCall(parsed(handleColorControlFrame(Device, frame)),
                             endpointId, clusterId, frame, missing, 0, FALSE)
        ELSE IF lifecycle.hasOriginal
        THEN IF originalThrows
             THEN handleFrameCatch(endpointId, clusterId, frame, missing, 1)
             ELSE CommitCall(Device, endpointId, clusterId, frame, missing,
                             1, FALSE)
        ELSE CommitCall(Device, endpointId, clusterId, frame, missing, 0,
                        FALSE)

MaxErrors == 1

LifeFrames == {<< >>, Fill(6, 10), <<1, 5, 2, 0>>, <<1, 6, 2, 0>>, <<76, 3>>}

Routed(endpointId, clusterId) ==
    endpointId = 1
        /\ clusterId \in {MANUFACTURER_CLUSTER, COLOR_CONTROL_CLUSTER}

(* What the transport may call handleFrame with: a frame or none on the    *)
(* two clusters the device parses, and one frame or none, with an          *)
(* original handler that returns or throws, anywhere else.                 *)
FrameCalls ==
    {call \in [endpointId : Endpoints, clusterId : FrameClusters,
               frame : LifeFrames, missing : BOOLEAN,
               originalThrows : BOOLEAN] :
        /\ call.missing => call.frame = << >>
        /\ IF Routed(call.endpointId, call.clusterId)
           THEN ~call.originalThrows
           ELSE call.frame \in {<< >>, <<76, 3>>}}

(* The transport calls node.handleFrame, which is this.handleFrame while   *)
(* it is installed.                                                        *)
FrameCall ==
    /\ lifecycle.installed
    /\ lifecycle.stateNull \/ deviceState.buttonsPressed < MaxPresses
    /\ lifecycle.stateNull \/ Len(deviceState.errors) < MaxErrors
    /\ \E call \in FrameCalls :
           handleFrameCall(call.endpointId, call.clusterId, call.frame,
                           call.missing, call.originalThrows)

LifeKept ==
    UNCHANGED <<now, lastButtonPress, deviceState, app, last, emitted,
                forwarded, log, lastCommand, commandHistory, buttonPressed,
                driver, thrown, peer, monotonic,
                init, manager, snapshot, onOff>>

(* onDeleted once the node is at hand: restore the handler if one was      *)
(* stored, and drop this.deviceState.                                      *)
onDeletedCleanup ==
    [lifecycle EXCEPT !.phase = "deleted",
                      !.installed = IF lifecycle.hasOriginal THEN FALSE
                                    ELSE @,
                      !.stateNull = TRUE,
                      !.cached = lastButtonPress]

(* onDeleted up to its await: with no original handler there is nothing    *)
(* to await.                                                               *)
DeleteBegin ==
    /\ lifecycle.phase = "ready"
    /\ lifecycle' = IF lifecycle.hasOriginal
                    THEN [lifecycle EXCEPT !.phase = "deleting"]
                    ELSE onDeletedCleanup
    /\ LifeKept

(* getNode resolves, or rejects and the catch of onDeleted logs. *)
DeleteEnd ==
    /\ lifecycle.phase = "deleting"
    /\ \E resolved \in BOOLEAN :
           lifecycle' = IF resolved THEN onDeletedCleanup
                        ELSE [lifecycle EXCEPT !.phase = "deleted",
                                               !.cached = lastButtonPress]
    /\ LifeKept

InitLifecycle ==
    /\ now = 0
    /\ lastButtonPress = NoPress
    /\ deviceState = InitialDeviceState
    /\ app \in {"full", "minimal"}
    /\ last = NoFrame
    /\ emitted = << >>
    /\ forwarded = 0
    /\ log = << >>
    /\ lastCommand = NoCommand
    /\ commandHistory = << >>
    /\ buttonPressed = << >>
    /\ driver = "extended"
    /\ \E hasOriginal \in BOOLEAN :
           lifecycle = [Ready EXCEPT !.hasOriginal = hasOriginal]
    /\ thrown = FALSE
    /\ peer = NoPeer
    /\ monotonic = [now |-> 0, stamp |-> 0]
    /\ init = Initialized
    /\ manager = NoManager
    /\ snapshot = NoSnapshot
    /\ onOff = NoOnOff

NextLifecycle == FrameCall \/ DeleteBegin \/ DeleteEnd

SpecLifecycle == InitLifecycle /\ [][NextLifecycle]_vars

----------------------------------------------------------------------------
(* onNodeInit of the remote device *)

(* The steps of onNodeInit whose failure reaches its catch.  The five      *)
(* setup...Cluster methods catch what endpoint.bind throws and return, so  *)
(* setupClusterBindings does not fail.                                     *)
InitSteps ==
    {"super.onNodeInit", "addCapability", "registerCapability",
     "setupEndpoints", "setupFrameHandling"}

(* The steps that run before this.deviceState is assigned *)
BeforeDeviceState ==
    {"super.onNodeInit", "addCapability", "registerCapability"}

(* The record the catch of onNodeInit pushes *)
initializationError == [type |-> "initialization", timestamp |-> now]

(* A device object whose onNodeInit has not run: no deviceState, the       *)
(* node's handler is the transport's.                                      *)
Constructed ==
    [phase |-> "constructed", installed |-> FALSE, hasOriginal |-> TRUE,
     stateNull |-> TRUE, cached |-> NoPress]

NotInitialized == [ran |-> FALSE, failedAt |-> "none", raised |-> "none"]

(* onNodeInit, with the step that fails or "none".  The catch reads        *)
(* this.deviceState.errors: when the failure came before the assignment    *)
(* of this.deviceState the push itself raises a TypeError, which replaces  *)
(* the error caught.                                                       *)
onNodeInit(failing, bindFails) ==
    /\ lifecycle.phase = "constructed"
    /\ IF failing \in BeforeDeviceState
       THEN /\ lifecycle' = [lifecycle EXCEPT !.phase = "failed"]
            /\ deviceState' = deviceState
            /\ init' = [ran |-> TRUE, failedAt |-> failing,
                        raised |-> "TypeError"]
       ELSE IF failing \in InitSteps
       THEN /\ lifecycle' = [lifecycle EXCEPT !.phase = "failed",
                                              !.stateNull = FALSE]
            /\ deviceState' =
                   [InitialDeviceState EXCEPT
                       !.isInitialized = FALSE,
                       !.errors = <<initializationError>>]
            /\ init' = [ran |-> TRUE, failedAt |-> failing,
                        raised |-> "original"]
       ELSE /\ lifecycle' = [lifecycle EXCEPT !.phase = "ready",
                                              !.installed = TRUE,
                                              !.stateNull = FALSE]
            /\ deviceState' = InitialDeviceState
            /\ init' = Initialized
    /\ UNCHANGED <<now, lastButtonPress, app, last, emitted, forwarded, log,
                   lastCommand, commandHistory, buttonPressed, driver,
                   thrown, peer, monotonic, manager, snapshot, onOff>>

NodeInit ==
    \E failing \in InitSteps \cup {"none"}, bindFails \in BOOLEAN :
        onNodeInit(failing, bindFails)

InitConstructed ==
    /\ now = 0
    /\ lastButtonPress = NoPress
    /\ deviceState = [InitialDeviceState EXCEPT !.isInitialized = FALSE]
    /\ app \in {"full", "minimal"}
    /\ last = NoFrame
    /\ emitted = << >>
    /\ forwarded = 0
    /\ log = << >>
    /\ lastCommand = NoCommand
    /\ commandHistory = << >>
    /\ buttonPressed = << >>
    /\ driver = "extended"
    /\ \E hasOriginal \in BOOLEAN :
           lifecycle = [Constructed EXCEPT !.hasOriginal = hasOriginal]
    /\ thrown = FALSE
    /\ peer = NoPeer
    /\ monotonic = [now |-> 0, stamp |-> 0]
    /\ init = NotInitialized
    /\ manager = NoManager
    /\ snapshot = NoSnapshot
    /\ onOff = NoOnOff

NextInit == NodeInit \/ FrameCall \/ DeleteBegin \/ DeleteEnd

SpecInit == InitConstructed /\ [][NextInit]_vars

----------------------------------------------------------------------------
(* DeviceManager and the application's device handlers, for one device.    *)
(* manager.registered is devices.has(id), hasState deviceStates.has(id),   *)
(* hasErrors deviceErrors.has(id); managerListeners and appListeners count *)
(* the listeners setupDeviceListeners and setupZBEK4Handlers /             *)
(* setupZBEK26Handlers have put on the device, which nothing removes.      *)

retryAttempts == 3
maxErrorHistory == 100

MaxRegistrations == 2
MaxInteractions == 2
MaxErrorRecords == 4

DriverIds == {"ZBEK-4", "ZBEK-26", "light"}
CommandErrors == {"timeout", "busy"}

ManagerKept ==
    UNCHANGED <<now, lastButtonPress, deviceState, app, last, emitted,
                forwarded, log, lastCommand, commandHistory, buttonPressed,
                driver, lifecycle, thrown, peer, monotonic, init, snapshot, onOff>>

(* LexmanApp.onDeviceInit: registerDevice, whose deviceRegistered event    *)
(* runs onDeviceRegistered and setupDeviceHandlers before it returns.      *)
registerDevice(m, driverId) ==
    [m EXCEPT !.registered = TRUE,
              !.driverId = driverId,
              !.hasState = TRUE,
              !.interactions = 0,
              !.available = TRUE,
              !.managerListeners = @ + 1,
              !.appListeners = IF driverId \in {"ZBEK-26", "ZBEK-4"}
                               THEN @ + 1 ELSE @,
              !.flows = 0,
              !.event = "registerDevice"]

(* LexmanApp.onDeviceDeleted: unregisterDevice *)
unregisterDevice(m) ==
    IF m.registered
    THEN [m EXCEPT !.registered = FALSE, !.hasState = FALSE,
                   !.interactions = 0, !.hasErrors = FALSE,
                   !.errors = << >>, !.flows = 0,
                   !.event = "unregisterDevice"]
    ELSE [m EXCEPT !.flows = 0, !.event = "unregisterDevice"]

(* LexmanApp.handleCapabilityChange for onoff or dim: the card exists. *)
appHandleCapabilityChange(m) == [m EXCEPT !.flows = @ + 1]

(* DeviceManager.handleCapabilityChange, and LexmanApp's                    *)
(* onDeviceCapabilityChanged on the event it emits                         *)
handleCapabilityChange(m) ==
    IF m.hasState
    THEN LET counted == [m EXCEPT !.interactions = @ + 1]
         IN  IF m.registered THEN appHandleCapabilityChange(counted)
             ELSE counted
    ELSE m

handleAvailabilityChange(m, available) ==
    IF m.hasState THEN [m EXCEPT !.available = available] ELSE m

handleDeviceError(m, error) ==
    LET pushed == Append(IF m.hasErrors THEN m.errors ELSE << >>, error)
    IN  [m EXCEPT !.hasErrors = TRUE,
                  !.errors = IF Len(pushed) > maxErrorHistory
                             THEN Tail(pushed) ELSE pushed]

(* A listener is called once for each time it was put on the device. *)
RECURSIVE eachCapabilityListener(_, _)
eachCapabilityListener(n, m) ==
    IF n = 0 THEN m ELSE eachCapabilityListener(n - 1, handleCapabilityChange(m))

RECURSIVE eachAppListener(_, _)
eachAppListener(n, m) ==
    IF n = 0 THEN m ELSE eachAppListener(n - 1, appHandleCapabilityChange(m))

RECURSIVE eachAvailabilityListener(_, _, _)
eachAvailabilityListener(n, m, available) ==
    IF n = 0 THEN m
    ELSE eachAvailabilityListener(n - 1, handleAvailabilityChange(m, available),
                                  available)

RECURSIVE eachErrorListener(_, _, _)
eachErrorListener(n, m, error) ==
    IF n = 0 THEN m
    ELSE eachErrorListener(n - 1, handleDeviceError(m, error), error)

(* The device emits capabilityChanged: the manager's listeners, then the   *)
(* application's.                                                          *)
emitCapabilityChanged(m) ==
    LET m0 == [m EXCEPT !.flows = 0, !.event = "capabilityChanged"]
        m1 == eachCapabilityListener(m.managerListeners, m0)
    IN  eachAppListener(m.appListeners, m1)

emitAvailabilityChanged(m, available) ==
    eachAvailabilityListener(m.managerListeners,
        [m EXCEPT !.flows = 0, !.event = "availabilityChanged"], available)

emitError(m, error) ==
    eachErrorListener(m.managerListeners,
        [m EXCEPT !.flows = 0, !.event = "error"], error)

(* Variant of attemptFailed: the delay follows every failed attempt. *)
attemptFailed_alwaysWaiting(m, error) ==
    LET m1 == handleDeviceError([m EXCEPT !.exec.failed = Append(@, error)],
                                error)
    IN  IF m.exec.attempt < retryAttempts - 1
        THEN [m1 EXCEPT !.exec.pc = "waiting", !.exec.waits = @ + 1]
        ELSE [m1 EXCEPT !.exec.pc = "rejected", !.exec.outcome = error,
                        !.exec.waits = @ + 1]

(* The catch of the retry loop: record the error, then wait if an attempt  *)
(* is left, else leave the loop and throw lastError.                       *)
attemptFailed(m, error) ==
    LET m1 == handleDeviceError([m EXCEPT !.exec.failed = Append(@, error)],
                                error)
    IN  IF m.exec.attempt < retryAttempts - 1
        THEN [m1 EXCEPT !.exec.pc = "waiting", !.exec.waits = @ + 1]
        ELSE [m1 EXCEPT !.exec.pc = "rejected", !.exec.outcome = error]

(* The head of the loop body: call device[command] and await it, or throw  *)
(* when it is not a function.                                              *)
attempt(m) ==
    IF m.exec.isFunction
    THEN [m EXCEPT !.exec.pc = "awaiting", !.exec.invoked = @ + 1]
    ELSE attemptFailed(m, "not_found")

(* executeDeviceCommand up to its first await *)
executeDeviceCommand(m, isFunction) ==
    LET m0 == [m EXCEPT !.flows = 0, !.event = "executeDeviceCommand",
                        !.exec = [NoExec EXCEPT !.isFunction = isFunction]]
    IN  IF ~m.registered
        THEN [m0 EXCEPT !.exec.pc = "rejected", !.exec.outcome = "not_found"]
        ELSE attempt(m0)

(* The awaited call settles. *)
commandSettled(m, ok, error) ==
    LET m0 == [m EXCEPT !.flows = 0, !.event = "commandSettled"]
    IN  IF ok
        THEN [m0 EXCEPT !.exec.pc = "resolved", !.exec.outcome = "result",
                        !.interactions = IF m.hasState THEN @ + 1 ELSE @]
        ELSE attemptFailed(m0, error)

(* The retry delay has passed. *)
retry(m) ==
    attempt([m EXCEPT !.flows = 0, !.event = "retry",
                      !.exec.attempt = @ + 1])

RegisterDevice ==
    /\ manager.managerListeners < MaxRegistrations
    /\ \E driverId \in DriverIds :
           /\ manager.managerListeners > 0 => driverId = manager.driverId
           /\ manager' = registerDevice(manager, driverId)
    /\ ManagerKept

UnregisterDevice ==
    /\ manager.managerListeners > 0
    /\ manager' = unregisterDevice(manager)
    /\ ManagerKept

CapabilityChanged ==
    /\ manager.managerListeners > 0
    /\ manager.interactions + manager.managerListeners <= MaxInteractions
    /\ manager' = emitCapabilityChanged(manager)
    /\ ManagerKept

AvailabilityChanged ==
    /\ manager.managerListeners > 0
    /\ \E available \in BOOLEAN :
           manager' = emitAvailabilityChanged(manager, available)
    /\ ManagerKept

ErrorEmitted ==
    /\ manager.managerListeners > 0
    /\ Len(manager.errors) + manager.managerListeners <= MaxErrorRecords
    /\ \E error \in CommandErrors : manager' = emitError(manager, error)
    /\ ManagerKept

ExecuteDeviceCommand ==
    /\ manager.exec.pc \in {"idle", "resolved", "rejected"}
    /\ Len(manager.errors) < MaxErrorRecords
    /\ manager.interactions < MaxInteractions
    /\ \E isFunction \in BOOLEAN :
           manager' = executeDeviceCommand(manager, isFunction)
    /\ ManagerKept

CommandSettled ==
    /\ manager.exec.pc = "awaiting"
    /\ Len(manager.errors) < MaxErrorRecords
    /\ manager.interactions < MaxInteractions
    /\ \E ok \in BOOLEAN, error \in CommandErrors :
           manager' = commandSettled(manager, ok, error)
    /\ ManagerKept

Retry ==
    /\ manager.exec.pc = "waiting"
    /\ Len(manager.errors) < MaxErrorRecords
    /\ manager' = retry(manager)
    /\ ManagerKept

NextManager ==
    \/ RegisterDevice
    \/ UnregisterDevice
    \/ CapabilityChanged
    \/ AvailabilityChanged
    \/ ErrorEmitted
    \/ ExecuteDeviceCommand
    \/ CommandSettled
    \/ Retry

(* The DeviceManager belongs to the application that constructs one. *)
InitManager == Init /\ app = "full"

SpecManager == InitManager /\ [][NextManager]_vars

----------------------------------------------------------------------------
(* Two devices of one application *)

(* The fields the methods of the second instance reach through this *)
PeerDevice == [lbp |-> peer.lbp, ds |-> peer.ds, out |-> << >>, ev |-> << >>]

(* Variant of CommitPeer: the recency cache is one object for the class. *)
CommitPeer_shared(d) ==
    /\ peer' = [lbp |-> d.lbp, ds |-> d.ds]
    /\ lastButtonPress' = d.lbp
    /\ UNCHANGED <<now, deviceState, app, last, emitted, forwarded, log,
                   lastCommand, commandHistory, buttonPressed, driver,
                   lifecycle, thrown, monotonic,
                   init, manager, snapshot, onOff>>

(* What a handler of the second instance assigns: this.lastButtonPress    *)
(* and this.deviceState are its own.                                       *)
CommitPeer(d) ==
    /\ peer' = [lbp |-> d.lbp, ds |-> d.ds]
    /\ UNCHANGED <<now, lastButtonPress, deviceState, app, last, emitted,
                   forwarded, log, lastCommand, commandHistory,
                   buttonPressed, driver, lifecycle, thrown, monotonic,
                   init, manager, snapshot, onOff>>

GreenFrames == {<<1, 5, 2, 0>>, <<1, 6, 2, 0>>, <<1, 6, 2, 1>>}

GreenFrame ==
    \E frame \in GreenFrames : handleFrame(1, COLOR_CONTROL_CLUSTER, frame)

PeerFrame ==
    /\ peer.ds.buttonsPressed < MaxPresses
    /\ \E frame \in GreenFrames :
           CommitPeer(handleColorControlFrame(PeerDevice, frame))

NextPeers == GreenFrame \/ PeerFrame \/ Tick

SpecPeers == Init /\ [][NextPeers]_vars

----------------------------------------------------------------------------
(* The wall clock.  Date.now() is the system's wall clock; monotonic.now   *)
(* is the time that really passed, which no handler reads.                 *)

(* The system clock is set backwards between two frames. *)
ClockSetBack ==
    \E back \in ClockSteps :
        /\ now - back >= 0
        /\ now' = now - back
        /\ UNCHANGED <<lastButtonPress, deviceState, app, last, emitted,
                       forwarded, log, lastCommand, commandHistory,
                       buttonPressed, driver, lifecycle, thrown, peer,
                       monotonic,
                       init, manager, snapshot, onOff>>

NoContextGreenFrames == {<<1, 5, 2, 0>>, <<1, 6, 2, 0>>}

NoContextGreenFrame ==
    \E frame \in NoContextGreenFrames :
        handleFrame(1, COLOR_CONTROL_CLUSTER, frame)

NextClock == NoContextGreenFrame \/ Tick \/ ClockSetBack

SpecClock == Init /\ [][NextClock]_vars

----------------------------------------------------------------------------
(* A run of green presses on one device *)

MaxRun == 3

RunFrames == {<<1, 5, 2, 0>>, <<1, 6, 2, 0>>, <<1, 8, 2, 0>>}

RunFrame ==
    /\ deviceState.buttonsPressed < MaxRun
    /\ \E frame \in RunFrames :
           Commit(handleColorControlFrame(Device, frame),
                  1, COLOR_CONTROL_CLUSTER, frame, 0)

NextSticky == RunFrame \/ Tick

SpecSticky == Init /\ [][NextSticky]_vars

----------------------------------------------------------------------------
(* Vocabulary of the properties *)

LastIsManufacturer ==
    last.endpointId = 1 /\ last.clusterId = MANUFACTURER_CLUSTER

LastIsColorControl ==
    last.endpointId = 1 /\ last.clusterId = COLOR_CONTROL_CLUSTER

LastIsStructured ==
    LastIsColorControl /\ Len(last.frame) >= 4 /\ last.frame[1] = 1

LastIsLegacy == LastIsColorControl /\ ~LastIsStructured

LastId == last.frame[2]
LastParam == last.frame[3]
LastContext == last.frame[4]

InContextTable(param, context) == param \in {2, 5, 76} /\ context \in {1, 3}

(* The identifiers 0x17 .. 0x28, which parseButtonId maps by table *)
InIdentifierTable(id) == id \in 23 .. 40

(* A structured frame that the context table passes on to the resolver *)
LastReachedResolver ==
    LastIsStructured /\ ~InContextTable(LastParam, LastContext)

GreenByParity(id) ==
    IF id % 2 = 1 THEN "pressed_green_left" ELSE "pressed_green_right"

(* A step in which handleFrame ran: the clock stands still in it. *)
FrameStep == now' = now

ResolverStep(param) ==
    /\ FrameStep
    /\ LastReachedResolver'
    /\ LastParam' = param

EntryAge == now - lastButtonPress.timestamp

----------------------------------------------------------------------------
(* C1: sticky resolution.  Whenever a parameterByte-0x02 frame reaches the *)
(* history resolver while the cache holds an entry stored less than        *)
(* 2000 ms ago (by an earlier frame that found no valid entry), it         *)
(* resolves to the cached action, whatever the two identifier bytes are.   *)
C1_StickyResolution ==
    [][(/\ ResolverStep(2)
        /\ ~InIdentifierTable(LastId')
        /\ lastButtonPress.set
        /\ EntryAge < 2000)
       => emitted' = <<lastButtonPress.action>>]_vars

----------------------------------------------------------------------------
(* C3: context table.  A structured frame [0x01, id, param, context] whose *)
(* (param, context) is (0x02,0x01), (0x02,0x03), (0x05,0x01), (0x05,0x03), *)
(* (0x4c,0x01) or (0x4c,0x03) fires exactly pressed_green_right,           *)
(* pressed_green_left, pressed_green_up, pressed_green_down,               *)
(* pressed_red_up, pressed_red_down, for every identifier byte.            *)
C3_ContextTable ==
    LastIsStructured =>
        /\ (LastParam = 2 /\ LastContext = 1
               => emitted = <<"pressed_green_right">>)
        /\ (LastParam = 2 /\ LastContext = 3
               => emitted = <<"pressed_green_left">>)
        /\ (LastParam = 5 /\ LastContext = 1
               => emitted = <<"pressed_green_up">>)
        /\ (LastParam = 5 /\ LastContext = 3
               => emitted = <<"pressed_green_down">>)
        /\ (LastParam = 76 /\ LastContext = 1
               => emitted = <<"pressed_red_up">>)
        /\ (LastParam = 76 /\ LastContext = 3
               => emitted = <<"pressed_red_down">>)

(* C3, witness: a context-table frame whose identifier the identifier      *)
(* table would have answered otherwise has fired the context table's       *)
(* action.                                                                 *)
C3_Witness ==
    /\ LastIsStructured
    /\ LastId = 25 /\ LastParam = 76 /\ LastContext = 3
    /\ emitted = <<"pressed_red_down">>

----------------------------------------------------------------------------
RedByParity(id) ==
    IF id % 2 = 1 THEN "pressed_red_up" ELSE "pressed_red_down"

UpDownByParity(id) ==
    IF id % 2 = 1 THEN "pressed_green_up" ELSE "pressed_green_down"

----------------------------------------------------------------------------
(* C5 as stated: the resolver yields some action for every identifier and  *)
(* parameter byte and every cache state.                                   *)
C5_Total_Original ==
    LastReachedResolver => emitted # << >>

(* C5, amended: the resolver yields an action exactly when the param is    *)
(* 0x02, 0x05 or 0x4c or the identifier is in the table 0x17 .. 0x28; for  *)
(* every other pair it yields none.                                        *)
C5_Total ==
    LastReachedResolver =>
        (Len(emitted) = 1 <=>
            (LastParam \in {2, 5, 76} \/ InIdentifierTable(LastId)))

(* C5, witness: both sides: a param-0x02 frame answered from a cache that  *)
(* holds an entry, and a frame of an unlisted param and identifier that    *)
(* yielded nothing.                                                        *)
C5_Witness ==
    /\ LastReachedResolver
    /\ LastParam = 2 /\ LastId = 200
    /\ lastButtonPress.set /\ lastButtonPress.buttonId = 5
    /\ emitted = <<"pressed_green_left">>

C5_WitnessNone ==
    /\ LastReachedResolver
    /\ LastParam = 7 /\ LastId = 200
    /\ emitted = << >>

----------------------------------------------------------------------------
(* C6: a manufacturer-cluster frame (endpoint 1, cluster 65024) shorter    *)
(* than 6 bytes fires no card and changes neither the device state nor the *)
(* recency cache, whatever its bytes are.                                  *)
C6_ShortManufacturerFrame ==
    [][(/\ FrameStep
        /\ LastIsManufacturer'
        /\ Len(last'.frame) < 6)
       => /\ emitted' = << >>
          /\ deviceState' = deviceState
          /\ lastButtonPress' = lastButtonPress]_vars

(* C6, witness: a frame of five bytes, each a mapped button identifier,    *)
(* was handled and nothing fired.                                          *)
C6_Witness ==
    /\ LastIsManufacturer
    /\ last.frame = <<10, 10, 10, 10, 10>>
    /\ emitted = << >>
    /\ deviceState.buttonsPressed = 0

----------------------------------------------------------------------------
(* C7: a manufacturer-cluster frame of 6 bytes or more fires               *)
(* pressed_scene_1 .. pressed_scene_4 for payload[5] = 0x0a .. 0x0d, once, *)
(* and fires nothing for every other payload[5].                           *)
C7_SceneTable ==
    (LastIsManufacturer /\ Len(last.frame) >= 6) =>
        /\ (last.frame[6] = 10 => emitted = <<"pressed_scene_1">>)
        /\ (last.frame[6] = 11 => emitted = <<"pressed_scene_2">>)
        /\ (last.frame[6] = 12 => emitted = <<"pressed_scene_3">>)
        /\ (last.frame[6] = 13 => emitted = <<"pressed_scene_4">>)
        /\ (last.frame[6] \notin {10, 11, 12, 13} => emitted = << >>)

(* C7, witness: a seven-byte frame with payload[5] = 0x0d has fired        *)
(* pressed_scene_4 through the application's trigger.                      *)
C7_Witness ==
    /\ LastIsManufacturer
    /\ last.frame = <<0, 1, 0, 0, 0, 13, 2>>
    /\ app = "full"
    /\ emitted = <<"pressed_scene_4">>

----------------------------------------------------------------------------
(* The pair the legacy path hands to the classifier: the command byte and  *)
(* the direction byte of the frame handled last.                           *)
LastCmdId == IF Len(last.frame) >= 1 THEN last.frame[1] ELSE Undefined
LastDirection == IF Len(last.frame) >= 2 THEN last.frame[2] ELSE 0

(* C8: legacy command + direction table.  commandId 76 or 5 fires          *)
(* pressed_brightness_up for direction 2 or 3 and pressed_brightness_down  *)
(* for direction 0 or 1; commandId 2 or 3 fires pressed_color_right /      *)
(* pressed_color_left; commandId 4 fires pressed_color_up /                *)
(* pressed_color_down; commandId 6 fires pressed_color_center for every    *)
(* direction.                                                              *)
C8_LegacyTable ==
    LastIsLegacy =>
        /\ (LastCmdId \in {76, 5} /\ LastDirection \in {2, 3}
               => emitted = <<"pressed_brightness_up">>)
        /\ (LastCmdId \in {76, 5} /\ LastDirection \in {0, 1}
               => emitted = <<"pressed_brightness_down">>)
        /\ (LastCmdId \in {2, 3} /\ LastDirection \in {2, 3}
               => emitted = <<"pressed_color_right">>)
        /\ (LastCmdId \in {2, 3} /\ LastDirection \in {0, 1}
               => emitted = <<"pressed_color_left">>)
        /\ (LastCmdId = 4 /\ LastDirection \in {2, 3}
               => emitted = <<"pressed_color_up">>)
        /\ (LastCmdId = 4 /\ LastDirection \in {0, 1}
               => emitted = <<"pressed_color_down">>)
        /\ (LastCmdId = 6 => emitted = <<"pressed_color_center">>)

(* C8, witness: command 3 with direction 2 has fired pressed_color_right.  *)
C8_Witness ==
    /\ LastIsLegacy
    /\ last.frame = <<3, 2>>
    /\ emitted = <<"pressed_color_right">>

----------------------------------------------------------------------------
RecognizedCmdIds == {76, 5, 2, 3, 4, 6}

(* C9 as stated: every commandId outside 76, 5, 2, 3, 4, 6, with 0 and     *)
(* undefined among them, fires pressed_brightness_up for direction 2 or 3  *)
(* and pressed_brightness_down for direction 0 or 1.                       *)
C9_Fallback_Original ==
    (LastIsLegacy /\ LastCmdId \notin RecognizedCmdIds) =>
        /\ (LastDirection \in {2, 3}
               => emitted = <<"pressed_brightness_up">>)
        /\ (LastDirection \in {0, 1}
               => emitted = <<"pressed_brightness_down">>)

(* C9, amended: only commandId 0 and an undefined commandId take the       *)
(* fallback row; every other commandId outside 76, 5, 2, 3, 4, 6 fires     *)
(* nothing, whatever the direction.                                        *)
C9_Fallback ==
    (LastIsLegacy /\ LastCmdId \notin RecognizedCmdIds) =>
        IF LastCmdId \in {0, Undefined}
        THEN /\ (LastDirection \in {2, 3}
                    => emitted = <<"pressed_brightness_up">>)
             /\ (LastDirection \in {0, 1}
                    => emitted = <<"pressed_brightness_down">>)
        ELSE emitted = << >>

(* C9, witness: command byte 0 with direction 3 has fired                  *)
(* pressed_brightness_up.                                                  *)
C9_Witness ==
    /\ LastIsLegacy
    /\ last.frame = <<0, 3>>
    /\ emitted = <<"pressed_brightness_up">>

----------------------------------------------------------------------------
(* C10 as stated: in the legacy path a recognized commandId with a         *)
(* direction outside 0 .. 3 fires nothing.                                 *)
C10_BadDirection_Original ==
    (/\ LastIsLegacy
     /\ LastCmdId \in RecognizedCmdIds
     /\ LastDirection \notin {0, 1, 2, 3})
    => emitted = << >>

(* C10, amended: commandId 76, 5, 2, 3 or 4 with a direction outside       *)
(* 0 .. 3 fires nothing; commandId 6 fires pressed_color_center for those  *)
(* directions too.                                                         *)
C10_BadDirection ==
    (/\ LastIsLegacy
     /\ LastCmdId \in RecognizedCmdIds
     /\ LastDirection \notin {0, 1, 2, 3})
    => IF LastCmdId = 6
       THEN emitted = <<"pressed_color_center">>
       ELSE emitted = << >>

(* C10, witness: command 76 with direction 0xff was handled and nothing    *)
(* fired.                                                                  *)
C10_Witness ==
    /\ LastIsLegacy
    /\ last.frame = <<76, 255>>
    /\ emitted = << >>
    /\ deviceState.lastButtonPress.actionId # "pressed_brightness_up"

----------------------------------------------------------------------------
(* Vocabulary of the legacy operands *)

LastIsObjectFrame ==
    lastCommand.cluster = "colorControl" /\ lastCommand.command = "frame"

(* The payload and the commandId of the frame as it arrived *)
Payload == IF LastIsObjectFrame THEN lastCommand.data ELSE last.frame

FrameCommandId == IF LastIsObjectFrame THEN lastCommand.cmdId ELSE Undefined

(* The legacy path classified the frame to an action: the operands handed  *)
(* to the classifier are the data of the press recorded.                   *)
LegacyClassified ==
    /\ LastIsLegacy \/ LastIsObjectFrame
    /\ emitted # << >>

HandedDirection == deviceState.lastButtonPress.data[1]

HandedCmdId == deviceState.lastButtonPress.data[2]

----------------------------------------------------------------------------
----------------------------------------------------------------------------
(* C12: a color-control frame that lacks a byte its decoder reads (the     *)
(* extended decoder's buffer has no direction byte, the basic decoder's    *)
(* frame has no data byte) fires nothing.                                  *)
C12_ShortColorControlFrame ==
    (/\ LastIsLegacy \/ LastIsObjectFrame
     /\ IF driver = "extended"
        THEN LastIsObjectFrame \/ Len(last.frame) < 2
        ELSE ~LastIsObjectFrame \/ Len(Payload) < 1)
    => emitted = << >>

----------------------------------------------------------------------------
(* Vocabulary of the cluster commands *)

LastIsCommand(cluster, command) ==
    lastCommand.cluster = cluster /\ lastCommand.command = command

LastIsBound(cluster, command) == IsAdeo /\ LastIsCommand(cluster, command)

PressedScene(sceneId) ==
    CASE sceneId = 0 -> "pressed_scene_0"
      [] sceneId = 1 -> "pressed_scene_1"
      [] sceneId = 2 -> "pressed_scene_2"
      [] sceneId = 3 -> "pressed_scene_3"
      [] sceneId = 4 -> "pressed_scene_4"
      [] sceneId = 5 -> "pressed_scene_5"
      [] sceneId = 6 -> "pressed_scene_6"
      [] OTHER -> "pressed_scene_255"

----------------------------------------------------------------------------
(* C13 as stated: a level-control step whose payload has stepMode 0 fires  *)
(* pressed_brightness_up once, and one with any other stepMode fires       *)
(* pressed_brightness_down once.                                           *)
C13_StepMode_Original ==
    LastIsBound("levelControl", "step") =>
        emitted = IF lastCommand.stepMode = 0
                  THEN <<"pressed_brightness_up">>
                  ELSE <<"pressed_brightness_down">>

(* C13, amended: a level-control step whose payload has mode 'up' fires    *)
(* pressed_brightness_up once, and one with any other mode, or none,       *)
(* fires pressed_brightness_down once, whatever stepMode the payload       *)
(* carries.                                                                *)
C13_StepMode ==
    LastIsBound("levelControl", "step") =>
        emitted = IF lastCommand.mode = "up"
                  THEN <<"pressed_brightness_up">>
                  ELSE <<"pressed_brightness_down">>

(* C13, witness: a step with mode 'up' and stepMode 1 fired                *)
(* pressed_brightness_up.                                                  *)
C13_Witness ==
    /\ LastIsBound("levelControl", "step")
    /\ lastCommand.mode = "up"
    /\ lastCommand.stepMode = 1
    /\ emitted = <<"pressed_brightness_up">>

----------------------------------------------------------------------------
(* C14: after any commands, setOn fires pressed_on once and nothing else,  *)
(* and setOff fires pressed_off once and nothing else.                     *)
C14_OnOff ==
    /\ LastIsBound("onOff", "setOn") => emitted = <<"pressed_on">>
    /\ LastIsBound("onOff", "setOff") => emitted = <<"pressed_off">>

(* C14, witness: setOff fired pressed_off as the second on/off command of  *)
(* a device that had fired a card before.                                  *)
C14_Witness ==
    /\ LastIsBound("onOff", "setOff")
    /\ Len(commandHistory) = 2
    /\ Len(log) = 2
    /\ emitted = <<"pressed_off">>

----------------------------------------------------------------------------
(* C15 as stated: on the ADEO remote recallScene with sceneId n fires      *)
(* pressed_scene_n, for every n.                                           *)
C15_RecallScene_Original ==
    LastIsBound("scenes", "recallScene") =>
        emitted = <<PressedScene(lastCommand.sceneId)>>

(* C15, amended: on the ADEO remote recallScene with sceneId n in 1 .. 4   *)
(* fires pressed_scene_n once; with any other sceneId it fires nothing.    *)
C15_RecallScene ==
    LastIsBound("scenes", "recallScene") =>
        emitted = IF lastCommand.sceneId \in 1 .. 4
                  THEN <<PressedScene(lastCommand.sceneId)>>
                  ELSE << >>

(* C15, witness: recallScene with sceneId 2 fired pressed_scene_2.         *)
C15_Witness ==
    /\ LastIsBound("scenes", "recallScene")
    /\ lastCommand.sceneId = 2
    /\ emitted = <<"pressed_scene_2">>

----------------------------------------------------------------------------
(* C16: on the Lexman remote recallScene with sceneId n >= 0 fires         *)
(* button_pressed once for button min(n + 1, 4): button 1, 2 or 3 for n =  *)
(* 0, 1 or 2 and button 4 for every n >= 3.                                *)
C16_BoundedScene ==
    (/\ driver = "lexman"
     /\ LastIsCommand("scenes", "recallScene")
     /\ lastCommand.sceneId >= 0)
    => /\ Len(buttonPressed) = 1
       /\ buttonPressed[1].command = "recallScene"
       /\ buttonPressed[1].button =
              CASE lastCommand.sceneId = 0 -> "button_1"
                [] lastCommand.sceneId = 1 -> "button_2"
                [] lastCommand.sceneId = 2 -> "button_3"
                [] OTHER -> "button_4"

(* C16, witness: recallScene with sceneId 2 fired button_pressed for       *)
(* button 3.                                                               *)
C16_Witness ==
    /\ driver = "lexman"
    /\ LastIsCommand("scenes", "recallScene")
    /\ lastCommand.sceneId = 2
    /\ buttonPressed = <<[button |-> "button_3", command |-> "recallScene"]>>

----------------------------------------------------------------------------
(* What a moveToHue or moveToSaturation command may not do *)
LastIsMove ==
    LastIsCommand("colorControl", "moveToHue")
        \/ LastIsCommand("colorControl", "moveToSaturation")

StateKept ==
    /\ deviceState' = deviceState
    /\ lastButtonPress' = lastButtonPress
    /\ log' = log

(* C17 as stated: a moveToHue or moveToSaturation command fires no card    *)
(* and leaves the press state and the cache as they were.                  *)
C17_MoveNoOp_Original ==
    [][LastIsMove' =>
           /\ emitted' = << >>
           /\ buttonPressed' = << >>
           /\ StateKept]_vars

(* C17, amended: on the ADEO remote a moveToHue or moveToSaturation        *)
(* command fires no card; on the Lexman remote moveToSaturation fires no   *)
(* card and moveToHue fires button_pressed once when it carries a hue,     *)
(* for button 1, 2, 3 or 4 by the quarter of 0 .. 65535 the hue lies in.   *)
(* Neither changes the press state or the cache.                           *)
C17_MoveNoOp ==
    [][LastIsMove' =>
           /\ emitted' = << >>
           /\ StateKept
           /\ IF driver = "lexman"
                  /\ lastCommand'.command = "moveToHue"
                  /\ lastCommand'.hue # Undefined
              THEN /\ Len(buttonPressed') = 1
                   /\ buttonPressed'[1].command = "moveToHue"
                   /\ buttonPressed'[1].button =
                          CASE lastCommand'.hue < 16384 -> "button_1"
                            [] lastCommand'.hue \in 16384 .. 32767 ->
                                   "button_2"
                            [] lastCommand'.hue \in 32768 .. 49151 ->
                                   "button_3"
                            [] OTHER -> "button_4"
              ELSE buttonPressed' = << >>]_vars

(* C17, witness: an ADEO remote that had fired a card handled moveToHue    *)
(* and fired nothing.                                                      *)
C17_Witness ==
    /\ LastIsBound("colorControl", "moveToHue")
    /\ deviceState.buttonsPressed = 1
    /\ Len(log) = 1
    /\ emitted = << >>

----------------------------------------------------------------------------
(* A step in which triggerAction was called: it counts a press and records *)
(* the action id and the data it was called with.                          *)
TriggerActionCalled ==
    /\ deviceState'.buttonsPressed > deviceState.buttonsPressed
    /\ deviceState'.lastButtonPress.type = "action"

CalledWith ==
    [card |-> deviceState'.lastButtonPress.actionId,
     data |-> deviceState'.lastButtonPress.data]

(* C18 as stated: every call of triggerAction triggers the card of its     *)
(* action id once with the data it was given, and no other card.           *)
C18_ForwardOnce_Original ==
    [][TriggerActionCalled =>
           /\ emitted' = <<CalledWith.card>>
           /\ log' = Append(log, CalledWith)]_vars

(* C18, amended: a call of triggerAction whose action id has a trigger     *)
(* card triggers that card once with the data it was given, and no other   *)
(* card; a call whose action id has no card triggers nothing.              *)
C18_ForwardOnce ==
    [][TriggerActionCalled =>
           IF CalledWith.card \in TriggerCards
           THEN /\ emitted' = <<CalledWith.card>>
                /\ log' = Append(log, CalledWith)
           ELSE /\ emitted' = << >>
                /\ log' = log]_vars

(* C18, witness: triggerAction was called with pressed_brightness_up and   *)
(* the corrected payload, and the card was triggered with that payload.    *)
C18_Witness ==
    /\ LastIsBound("levelControl", "step")
    /\ deviceState.lastButtonPress.type = "action"
    /\ deviceState.lastButtonPress.actionId = "pressed_brightness_up"
    /\ emitted = <<"pressed_brightness_up">>
    /\ log = <<[card |-> "pressed_brightness_up", data |-> <<0>>]>>

----------------------------------------------------------------------------
(* C19: handling a manufacturer or color-control frame triggers at most    *)
(* one card, whatever the cache holds.                                     *)
C19_AtMostOne ==
    (LastIsManufacturer \/ LastIsColorControl) => Len(emitted) <= 1

(* C19, witness: a structured frame answered from the cache fired one      *)
(* card.                                                                   *)
C19_Witness ==
    /\ LastIsStructured
    /\ LastId = 6
    /\ emitted = <<"pressed_green_left">>
    /\ deviceState.buttonsPressed = 2

----------------------------------------------------------------------------
(* Frames whose decoding does not depend on the cache *)
DecodableManufacturer(frame) == Len(frame) >= 6 /\ frame[6] \in 10 .. 13

BrightnessUpFrame(frame) == frame = <<76, 3>>

(* C20: the cards a frame fires are appended to those fired before, in     *)
(* the order of arrival, and a frame that decodes to an action fires it    *)
(* whatever the frames before it fired.                                    *)
C20_ArrivalOrder ==
    [][FrameStep =>
           /\ Len(log') = Len(log) + Len(emitted')
           /\ SubSeq(log', 1, Len(log)) = log
           /\ \A i \in 1 .. Len(emitted') :
                  log'[Len(log) + i].card = emitted'[i]
           /\ (LastIsManufacturer' /\ DecodableManufacturer(last'.frame))
                  => Len(emitted') = 1
           /\ (LastIsColorControl' /\ BrightnessUpFrame(last'.frame))
                  => emitted' = <<"pressed_brightness_up">>]_vars

(* C20, witness: a manufacturer frame and a color-control frame of the     *)
(* same instant fired pressed_scene_1 and then pressed_brightness_up.      *)
C20_Witness ==
    /\ now = 0
    /\ LastIsColorControl
    /\ Len(log) = 2
    /\ log[1].card = "pressed_scene_1"
    /\ log[2].card = "pressed_brightness_up"

----------------------------------------------------------------------------
(* Vocabulary of the life of the device *)

(* A step that is a call of handleFrame: onDeleted is the only other step  *)
(* and it moves the lifecycle.                                             *)
CallStep == lifecycle' = lifecycle /\ now' = now

ScenePresses ==
    {"pressed_scene_1", "pressed_scene_2", "pressed_scene_3",
     "pressed_scene_4"}

Cards(fired) == {fired[i] : i \in 1 .. Len(fired)}

----------------------------------------------------------------------------
(* C21: no call of handleFrame throws to the transport, whatever the       *)
(* endpoint, the cluster and the frame, a missing frame included, and      *)
(* whether onDeleted has not begun, is under way or has ended.             *)
C21_NeverThrows == ~thrown

----------------------------------------------------------------------------
(* C22: a frame on endpoint 1 and cluster 65024 goes to the manufacturer   *)
(* parser only (scene cards at most, the recency cache untouched) and a    *)
(* frame on endpoint 1 and cluster 768 to the color-control parser only    *)
(* (no scene card), neither reaching the original handler; any other       *)
(* frame reaches the original handler, when the node had one, exactly      *)
(* once, and the decoder fires nothing and writes nothing for it.          *)
C22_Routing ==
    [][CallStep =>
           IF last'.endpointId = 1 /\ last'.clusterId = MANUFACTURER_CLUSTER
           THEN /\ forwarded' = 0
                /\ lastButtonPress' = lastButtonPress
                /\ Cards(emitted') \subseteq ScenePresses
           ELSE IF last'.endpointId = 1
                   /\ last'.clusterId = COLOR_CONTROL_CLUSTER
           THEN /\ forwarded' = 0
                /\ Cards(emitted') \cap ScenePresses = {}
           ELSE /\ forwarded' = IF lifecycle.hasOriginal THEN 1 ELSE 0
                /\ emitted' = << >>
                /\ log' = log
                /\ lastButtonPress' = lastButtonPress]_vars

(* C22, witness: a frame the color-control parser would decode arrived on  *)
(* endpoint 2, went to the original handler once and fired nothing.        *)
C22_Witness ==
    /\ last = [endpointId |-> 2, clusterId |-> COLOR_CONTROL_CLUSTER,
               frame |-> <<76, 3>>]
    /\ lastCommand = NoCommand
    /\ forwarded = 1
    /\ emitted = << >>
    /\ ~thrown

----------------------------------------------------------------------------
(* C23: once onDeleted has ended, no green frame is answered from the      *)
(* cache entry that was there when it ended.                               *)
C23_ClearedOnTeardown ==
    [][(/\ CallStep
        /\ lifecycle.phase = "deleted"
        /\ LastIsStructured'
        /\ last'.frame[3] = 2
        /\ last'.frame[4] \notin {1, 3}
        /\ ~InIdentifierTable(last'.frame[2]))
       => ~(/\ lastButtonPress.set
            /\ lastButtonPress.buttonId # 0
            /\ lastButtonPress = lifecycle.cached
            /\ lastButtonPress' = lastButtonPress)]_vars

----------------------------------------------------------------------------
(* Vocabulary of the two devices *)

OwnStep == last' # last \/ deviceState' # deviceState

PeerStep == peer' # peer

GreenParity(id) ==
    IF id % 2 = 1 THEN "pressed_green_left" ELSE "pressed_green_right"

(* The entry of the device's own cache answers a press now. *)
OwnEntryFresh ==
    lastButtonPress.set /\ now - lastButtonPress.timestamp < StickyWindowMs

(* C24: a frame of one device leaves the cache, the state and the cards    *)
(* of the other as they were, and a green press of a device is answered    *)
(* from that device's own entry when it is fresh and from parity           *)
(* otherwise, whatever the other device's cache holds.                     *)
C24_NoSharing ==
    [][/\ PeerStep => /\ lastButtonPress' = lastButtonPress
                      /\ deviceState' = deviceState
                      /\ log' = log
                      /\ emitted' = emitted
       /\ OwnStep => peer' = peer
       /\ (OwnStep /\ LastIsStructured' /\ last'.frame[4] = 0) =>
              emitted' = IF OwnEntryFresh
                         THEN <<lastButtonPress.action>>
                         ELSE <<GreenParity(last'.frame[2])>>]_vars

(* C24, witness: the device answered identifier 6 with its own cached      *)
(* pressed_green_left while the other device's cache held                  *)
(* pressed_green_right.                                                    *)
C24_Witness ==
    /\ LastIsStructured
    /\ last.frame = <<1, 6, 2, 0>>
    /\ emitted = <<"pressed_green_left">>
    /\ lastButtonPress.action = "pressed_green_left"
    /\ peer.lbp.set
    /\ peer.lbp.action = "pressed_green_right"
    /\ peer.lbp.timestamp = now

----------------------------------------------------------------------------
(* Time that really passed since the cache entry was written *)
RealAge == monotonic.now - monotonic.stamp

(* C25: a press with parameter 0x02 and no context that arrives 2000 ms or *)
(* more of real time after the press that wrote the cache entry is         *)
(* answered from parity, wherever the wall clock was set in between.       *)
C25_MonotonicWindow ==
    [][(/\ OwnStep
        /\ LastIsStructured'
        /\ last'.frame[3] = 2
        /\ last'.frame[4] = 0
        /\ lastButtonPress.set
        /\ RealAge >= StickyWindowMs) =>
           emitted' = <<GreenParity(last'.frame[2])>>]_vars

----------------------------------------------------------------------------
(* The action of the context table for a listed (param, context) pair *)
ContextAction(param, context) ==
    IF param = 2 THEN (IF context = 1 THEN "pressed_green_right"
                       ELSE "pressed_green_left")
    ELSE IF param = 5 THEN (IF context = 1 THEN "pressed_green_up"
                            ELSE "pressed_green_down")
    ELSE (IF context = 1 THEN "pressed_red_up" ELSE "pressed_red_down")

(* A structured frame classified by the context table, or by parity with   *)
(* param 0x05 or 0x4c, and the action its bytes alone determine.           *)
ClassifiedWithoutCache(frame) ==
    \/ InContextTable(frame[3], frame[4])
    \/ frame[3] \in {5, 76} /\ ~InIdentifierTable(frame[2])

CacheFreeAction(frame) ==
    IF InContextTable(frame[3], frame[4])
    THEN ContextAction(frame[3], frame[4])
    ELSE IF frame[3] = 5 THEN UpDownByParity(frame[2])
    ELSE RedByParity(frame[2])

(* C26: a structured frame classified by the context table, or by parity   *)
(* for param 0x05 or 0x4c, fires the action its own bytes determine,       *)
(* whatever the recency cache holds, and leaves the cache entry as it was. *)
C26_CacheUntouched ==
    [][(/\ FrameStep
        /\ LastIsStructured'
        /\ ClassifiedWithoutCache(last'.frame))
       => /\ emitted' = <<CacheFreeAction(last'.frame)>>
          /\ lastButtonPress' = lastButtonPress]_vars

(* C26, witness: with a green entry stored 1000 ms ago in the cache, an    *)
(* odd identifier with param 0x05 and an unlisted context fired            *)
(* pressed_green_up and the entry is the one that was there.               *)
C26_Witness ==
    /\ LastReachedResolver
    /\ LastId = 41 /\ LastParam = 5 /\ LastContext = 2
    /\ emitted = <<"pressed_green_up">>
    /\ lastButtonPress = PressedGreen(6, "pressed_green_right")
    /\ now = 1000

(* C26, witness: the same through the context table *)
C26_WitnessContext ==
    /\ LastIsStructured
    /\ LastId = 5 /\ LastParam = 2 /\ LastContext = 1
    /\ emitted = <<"pressed_green_right">>
    /\ lastButtonPress = PressedGreen(5, "pressed_green_left")
    /\ now = 1000

----------------------------------------------------------------------------
(* The bytes triggerAction recorded with the card of the last press: the   *)
(* structured path records (identifier, param, context), the legacy path   *)
(* (direction, commandId).                                                 *)
RecordedData == deviceState.lastButtonPress.data

(* A structured frame for which neither the context table nor the          *)
(* parameter-only classifier has an action                                 *)
StructuredYieldsNone(frame) ==
    /\ ~InContextTable(frame[3], frame[4])
    /\ frame[3] \notin {2, 5, 76}
    /\ ~InIdentifierTable(frame[2])

(* C27: a color-control frame with payload[0] = 0x01 and four bytes or     *)
(* more is classified by the structured path alone: what fires carries the *)
(* structured bytes, and nothing fires when the structured path has no     *)
(* action.  Every other frame is classified by the legacy path alone: the  *)
(* recency cache is not touched, what fires carries (direction,            *)
(* commandId), and commandId 76 or 5 with direction 2 or 3 fires           *)
(* pressed_brightness_up whatever the length of the frame is.              *)
C27_OnePath ==
    [][(FrameStep /\ LastIsColorControl') =>
          IF LastIsStructured'
          THEN /\ emitted' # << >> =>
                    /\ Len(emitted') = 1
                    /\ RecordedData' = <<LastId', LastParam', LastContext'>>
               /\ StructuredYieldsNone(last'.frame) =>
                    /\ emitted' = << >>
                    /\ deviceState' = deviceState
          ELSE /\ lastButtonPress' = lastButtonPress
               /\ emitted' # << >> =>
                    /\ Len(emitted') = 1
                    /\ RecordedData' = <<LastDirection', LastCmdId'>>
               /\ emitted' = << >> => deviceState' = deviceState
               /\ (LastCmdId' \in {76, 5} /\ LastDirection' \in {2, 3}) =>
                    emitted' = <<"pressed_brightness_up">>]_vars

(* C27, witness: a structured frame whose identifier and param the legacy  *)
(* table would read as commandId 5, direction 0 has fired nothing.         *)
C27_Witness ==
    /\ LastIsStructured
    /\ last.frame = <<1, 5, 0, 0>>
    /\ emitted = << >>

(* C27, witness: a frame of four bytes that does not start with 0x01 was   *)
(* classified by commandId and direction.                                  *)
C27_WitnessLegacy ==
    /\ LastIsLegacy
    /\ last.frame = <<76, 3, 0, 0>>
    /\ emitted = <<"pressed_brightness_up">>
    /\ RecordedData = <<3, 76>>

----------------------------------------------------------------------------
(* The time of the press that populated the cache entry: the last step     *)
(* that wrote it.                                                          *)
PopulatedAt == monotonic.stamp

GreenPressStep ==
    /\ FrameStep
    /\ LastIsStructured'
    /\ last'.frame[3] = 2
    /\ last'.frame[4] = 0
    /\ lastButtonPress.set

(* C28: a press with param 0x02 that finds an entry stored less than       *)
(* 2000 ms ago fires the entry's action and leaves its action, identifier  *)
(* and timestamp as they were; the first press 2000 ms or more after the   *)
(* press that populated the entry is answered from parity and stores a new *)
(* entry, however many presses have hit the entry in between.              *)
C28_WindowFromPopulatingPress ==
    [][GreenPressStep =>
          IF now - PopulatedAt < StickyWindowMs
          THEN /\ emitted' = <<lastButtonPress.action>>
               /\ lastButtonPress' = lastButtonPress
          ELSE /\ emitted' = <<GreenParity(last'.frame[2])>>
               /\ lastButtonPress' =
                      [set |-> TRUE, buttonId |-> last'.frame[2],
                       param |-> 2,
                       action |-> GreenParity(last'.frame[2]),
                       timestamp |-> now]]_vars

(* C28, witness: identifier 5 at 0 ms populated the entry, identifier 6 at *)
(* 1000 ms hit it, and identifier 6 at 2000 ms, 1000 ms after the hit, was *)
(* answered from parity.                                                   *)
C28_Witness ==
    /\ now = 2000
    /\ Len(log) = 3
    /\ log[1] = [card |-> "pressed_green_left", data |-> <<5, 2, 0>>]
    /\ log[2] = [card |-> "pressed_green_left", data |-> <<6, 2, 0>>]
    /\ log[3] = [card |-> "pressed_green_right", data |-> <<6, 2, 0>>]
    /\ lastButtonPress.timestamp = 2000

----------------------------------------------------------------------------
(* The legacy table of commandId and direction, for the commandIds both    *)
(* decoders list                                                           *)
LegacyTable(cmdId, direction) ==
    IF cmdId \in {76, 5}
    THEN (IF direction \in {2, 3} THEN "pressed_brightness_up"
          ELSE "pressed_brightness_down")
    ELSE (IF direction \in {2, 3} THEN "pressed_color_right"
          ELSE "pressed_color_left")

(* The last call handed (cmdId, direction) to parseColorControlCommand:    *)
(* the extended class from a Buffer's first two bytes, the basic class     *)
(* from a frame object's cmdId and first data byte.                        *)
DecoderInput(cmdId, direction) ==
    \/ /\ driver = "extended"
       /\ LastIsLegacy
       /\ Len(last.frame) >= 2
       /\ last.frame[1] = cmdId
       /\ last.frame[2] = direction
    \/ /\ driver = "basic"
       /\ lastCommand.cluster = "colorControl"
       /\ lastCommand.cmdId = cmdId
       /\ lastCommand.hasData
       /\ Len(lastCommand.data) >= 1
       /\ lastCommand.data[1] = direction

(* C29: for every commandId in {76, 5, 2} and every direction in           *)
(* {0, 1, 2, 3} a decoder was called with, the decoder of drivers/ZBEK-26  *)
(* and the decoder of the extended class return the same action, the one   *)
(* of the legacy table, and that action is what fired.                     *)
C29_DecodersAgree ==
    \A cmdId \in {76, 5, 2}, direction \in 0 .. 3 :
        DecoderInput(cmdId, direction) =>
            /\ basicParseColorControlCommand(cmdId, direction)
                   = parseColorControlCommand(cmdId, direction)
            /\ parseColorControlCommand(cmdId, direction)
                   = LegacyTable(cmdId, direction)
            /\ emitted = <<LegacyTable(cmdId, direction)>>

----------------------------------------------------------------------------
(* The pairs the table of getButtonFromManufacturerData lists *)
ListedPairs ==
    {<<13, 1>>, <<13, 2>>, <<13, 3>>, <<13, 4>>, <<14, 1>>, <<14, 2>>,
     <<15, 1>>, <<15, 2>>, <<16, 1>>, <<16, 2>>, <<17, 1>>, <<17, 2>>,
     <<18, 1>>}

ListedButton(pair) ==
    CASE pair = <<13, 1>> -> "button_1"
      [] pair = <<13, 2>> -> "button_2"
      [] pair = <<13, 3>> -> "button_3"
      [] pair = <<13, 4>> -> "button_4"
      [] pair = <<14, 1>> -> "on"
      [] pair = <<14, 2>> -> "off"
      [] pair = <<15, 1>> -> "up"
      [] pair = <<15, 2>> -> "down"
      [] pair = <<16, 1>> -> "left"
      [] pair = <<16, 2>> -> "right"
      [] pair = <<17, 1>> -> "arrow_up"
      [] pair = <<17, 2>> -> "arrow_down"
      [] pair = <<18, 1>> -> "center"

LastManufacturerPair == <<lastCommand.data[1], lastCommand.data[2]>>

(* C30: after a manufacturer-specific command of a Lexman remote whose     *)
(* data holds two bytes or more, a listed pair of first bytes has caused   *)
(* one button_pressed trigger with the button the table lists for it, and  *)
(* an unlisted pair has caused none.                                       *)
C30_ManufacturerTable ==
    (/\ driver = "lexman"
     /\ LastIsCommand("manufacturerSpecific", "command")
     /\ lastCommand.hasData
     /\ Len(lastCommand.data) >= 2) =>
        IF LastManufacturerPair \in ListedPairs
        THEN buttonPressed =
                 <<[button |-> ListedButton(LastManufacturerPair),
                    command |-> "manufacturer_specific"]>>
        ELSE buttonPressed = << >>

----------------------------------------------------------------------------
(* onNodeInit has ended in failure *)
InitFailed == init.ran /\ init.failedAt # "none"

HasInitializationRecord ==
    /\ ~lifecycle.stateNull
    /\ \E i \in 1 .. Len(deviceState.errors) :
           deviceState.errors[i].type = "initialization"

(* C31: when a step of onNodeInit has failed, deviceState.errors holds an  *)
(* 'initialization' record, the error that reached the caller is the one   *)
(* the step raised, and isInitialized is not true; isInitialized is true   *)
(* only when onNodeInit ran without a failure and the handler was          *)
(* installed.                                                              *)
C31_FailedInit ==
    /\ InitFailed =>
          /\ HasInitializationRecord
          /\ init.raised = "original"
          /\ ~deviceState.isInitialized
    /\ (~lifecycle.stateNull /\ deviceState.isInitialized) =>
          /\ init.ran
          /\ init.failedAt = "none"
          /\ lifecycle.phase # "constructed"

----------------------------------------------------------------------------
(* C32: once onDeleted has completed on a device whose onNodeInit          *)
(* installed the handler, node.handleFrame is no longer the device's       *)
(* handler but the one that was there before, whatever that was, and no    *)
(* frame is handled by the device afterwards.                              *)
C32_RoundTrip ==
    [][/\ lifecycle'.phase = "deleted" => ~lifecycle'.installed
       /\ lifecycle.phase = "deleted" =>
              /\ last' = last
              /\ lastCommand' = lastCommand]_vars

----------------------------------------------------------------------------
(* The presses counted while the frame of this step was handled *)
PressesCounted == deviceState'.buttonsPressed - deviceState.buttonsPressed

(* C33: handling a frame counts one press when the frame carries a button  *)
(* event (a scene press of a manufacturer frame, or an action that fired)  *)
(* and none otherwise, and deviceState.lastButtonPress then describes that *)
(* event: its time and, for a scene press, its scene.                      *)
C33_OnePressPerEvent ==
    [][FrameStep =>
          /\ PressesCounted \in {0, 1}
          /\ (LastIsManufacturer' /\ DecodableManufacturer(last'.frame)) =>
                 /\ PressesCounted = 1
                 /\ deviceState'.lastButtonPress.timestamp = now
                 /\ deviceState'.lastButtonPress.data[1] = last'.frame[6]
          /\ emitted' # << >> =>
                 /\ PressesCounted = 1
                 /\ deviceState'.lastButtonPress.timestamp = now]_vars

----------------------------------------------------------------------------
(* Vocabulary of the retry loop *)
ExecStep ==
    manager'.event \in {"executeDeviceCommand", "commandSettled", "retry"}

(* An attempt has failed in this step. *)
AttemptFailedNow ==
    IF manager'.event = "executeDeviceCommand"
    THEN Len(manager'.exec.failed) = 1
    ELSE Len(manager'.exec.failed) = Len(manager.exec.failed) + 1

ErrorHistory == IF manager.hasErrors THEN manager.errors ELSE << >>

(* C34: executeDeviceCommand invokes the command at most retryAttempts     *)
(* times and makes no attempt after a success or after the third failure;  *)
(* each failed attempt appends one record, its error, to the error         *)
(* history; a delay was waited after each failed attempt but the last;     *)
(* after the third failure the call rejects with the third error; for a    *)
(* device id that is not registered it rejects at once, with no attempt    *)
(* and no record.                                                          *)
C34_RetryLoop ==
    [][ExecStep =>
          LET e == manager'.exec
              failures == Len(e.failed)
          IN  /\ e.invoked <= retryAttempts
              /\ failures <= retryAttempts
              /\ manager.exec.pc \in {"resolved", "rejected"} =>
                     manager'.event = "executeDeviceCommand"
              /\ e.pc = "resolved" =>
                     /\ e.invoked = failures + 1
                     /\ e.waits = failures
                     /\ e.outcome = "result"
              /\ e.pc \in {"awaiting", "waiting"} =>
                     /\ e.waits = failures
                     /\ failures < retryAttempts
              /\ e.pc = "rejected" =>
                     \/ /\ ~manager.registered
                        /\ manager'.event = "executeDeviceCommand"
                     \/ /\ failures = retryAttempts
                        /\ e.waits = retryAttempts - 1
                        /\ e.outcome = e.failed[retryAttempts]
              /\ IF AttemptFailedNow
                 THEN /\ manager'.hasErrors
                      /\ manager'.errors = Append(ErrorHistory,
                                                  e.failed[failures])
                 ELSE /\ manager'.hasErrors = manager.hasErrors
                      /\ manager'.errors = manager.errors
              /\ (manager'.event = "executeDeviceCommand"
                      /\ ~manager.registered) =>
                     /\ e.pc = "rejected"
                     /\ e.invoked = 0
                     /\ failures = 0]_vars

(* C34, witness: three attempts failed with timeout, busy, timeout; two    *)
(* delays were waited and the call rejected with the last error.           *)
C34_Witness ==
    /\ manager.exec.pc = "rejected"
    /\ manager.exec.invoked = 3
    /\ manager.exec.failed = <<"timeout", "busy", "timeout">>
    /\ manager.exec.waits = 2
    /\ manager.exec.outcome = "timeout"
    /\ manager.errors = <<"timeout", "busy", "timeout">>

(* C34, witness: the second attempt succeeded. *)
C34_WitnessResolved ==
    /\ manager.exec.pc = "resolved"
    /\ manager.exec.invoked = 2
    /\ manager.exec.failed = <<"busy">>
    /\ manager.exec.waits = 1

----------------------------------------------------------------------------
(* C35: once unregisterDevice has removed the device, and until it is      *)
(* registered again, the manager holds no entry for it in devices,         *)
(* deviceStates or deviceErrors, whatever the device emits and whatever    *)
(* retries of executeDeviceCommand are still under way.                    *)
C35_NoEntryAfterUnregister ==
    ~manager.registered => (~manager.hasState /\ ~manager.hasErrors)

(* C36 as an observation of one capability change *)
CapabilityChangeStep == manager'.event = "capabilityChanged"

(* C36: one capability change of a registered light device, registered     *)
(* once or more than once, causes one flow trigger from the application    *)
(* and adds one to the manager's interactions counter of the device.       *)
C36_OneTriggerPerChange ==
    [][(CapabilityChangeStep /\ manager.registered) =>
          /\ manager'.flows = 1
          /\ manager'.interactions = manager.interactions + 1]_vars

(* ------------------------------------------------------------------ *)
(* OnOffBoundCluster as a class: any handlers, a history near its cap  *)
(* ------------------------------------------------------------------ *)

MaxCommands == 4

OnOffCommands == {"setOn", "setOff", "toggle"}

(* The handler setOn, setOff or toggle looks up; the constructor refuses
   to build a cluster without onSetOn or onSetOff, onToggle is optional. *)
hasHandler(c, command) == IF command = "toggle" THEN c.onToggle ELSE TRUE

(* Variant of onOffCall: the handler runs before the command is recorded. *)
onOffCall_handlerFirst(c, history, command, handlerThrows) ==
    LET invoked == hasHandler(c, command)
        raised == invoked /\ handlerThrows
    IN  [history |-> IF raised THEN history
                     ELSE recordCommand(history, command),
         raised |-> raised,
         outcome |-> IF ~invoked THEN "warned"
                     ELSE IF raised THEN "caught" ELSE "handled",
         thrown |-> FALSE]

(* The body of setOn, setOff and toggle: record, then the handler or a
   warning, all inside one try whose catch only logs. *)
onOffCall(c, history, command, handlerThrows) ==
    LET recorded == recordCommand(history, command)
        invoked == hasHandler(c, command)
        raised == invoked /\ handlerThrows
    IN  [history |-> recorded,
         raised |-> raised,
         outcome |-> IF ~invoked THEN "warned"
                     ELSE IF raised THEN "caught" ELSE "handled",
         thrown |-> FALSE]

(* Variant of getCommandHistory: hands out the array of the cluster. *)
getCommandHistory_sameArray(history) ==
    [taken |-> TRUE, records |-> history, shared |-> TRUE]

(* getCommandHistory: a new array of the same records. *)
getCommandHistory(history) ==
    [taken |-> TRUE, records |-> history, shared |-> FALSE]

(* clearCommandHistory assigns a new empty array. *)
clearCommandHistory(history) == << >>

(* What push and shift on the array of the cluster do to an array handed
   out earlier: nothing, unless it is the same array. *)
afterPush(s, history) == IF s.shared THEN [s EXCEPT !.records = history] ELSE s

ClusterKept ==
    UNCHANGED <<now, lastButtonPress, deviceState, app, last, emitted,
                forwarded, log, lastCommand, buttonPressed, driver, lifecycle,
                peer, monotonic, init, manager>>

ClusterCall ==
    /\ onOff.issued < MaxCommands
    /\ \E command \in OnOffCommands, handlerThrows \in BOOLEAN :
           LET r == onOffCall(onOff, commandHistory, command, handlerThrows)
           IN  /\ commandHistory' = r.history
               /\ thrown' = r.thrown
               /\ snapshot' = afterPush(snapshot, r.history)
               /\ onOff' = [onOff EXCEPT
                      !.issued = @ + 1,
                      !.command = command,
                      !.raised = r.raised,
                      !.outcome = r.outcome,
                      !.errorsLogged = IF r.outcome = "caught" THEN @ + 1
                                       ELSE @]
    /\ ClusterKept

GetCommandHistory ==
    /\ snapshot' = getCommandHistory(commandHistory)
    /\ onOff' = [onOff EXCEPT !.command = "getCommandHistory",
                                  !.raised = FALSE, !.outcome = "none"]
    /\ UNCHANGED <<commandHistory, thrown>>
    /\ ClusterKept

ClearCommandHistory ==
    /\ commandHistory' = clearCommandHistory(commandHistory)
    /\ onOff' = [onOff EXCEPT !.command = "clearCommandHistory",
                                  !.raised = FALSE, !.outcome = "none"]
    /\ UNCHANGED <<snapshot, thrown>>
    /\ ClusterKept

(* The history n calls of one command leave on a new cluster, for n up to
   the cap: n records of that command, none dropped. *)
Recorded(n, command) ==
    [i \in 1 .. n |-> [command |-> command, timestamp |-> now]]

(* Histories a cluster has after that many commands: empty, and one and no
   record short of the cap. *)
HistoryStarts == {0, maxHistorySize - 1, maxHistorySize}

InitOnOff ==
    /\ now = 0
    /\ lastButtonPress = NoPress
    /\ deviceState = InitialDeviceState
    /\ app = "full"
    /\ last = NoFrame
    /\ emitted = << >>
    /\ forwarded = 0
    /\ driver = "extended"
    /\ log = << >>
    /\ lastCommand = NoCommand
    /\ buttonPressed = << >>
    /\ lifecycle = Ready
    /\ thrown = FALSE
    /\ peer = NoPeer
    /\ monotonic = [now |-> 0, stamp |-> 0]
    /\ init = Initialized
    /\ manager = NoManager
    /\ snapshot = NoSnapshot
    /\ \E n \in HistoryStarts, command \in OnOffCommands :
           commandHistory = Recorded(n, command)
    /\ \E onToggle \in BOOLEAN :
           onOff = [NoOnOff EXCEPT !.onToggle = onToggle]

NextOnOff == ClusterCall \/ GetCommandHistory \/ ClearCommandHistory

SpecOnOff == InitOnOff /\ [][NextOnOff]_vars

(* C37: the command history of an OnOffBoundCluster never holds more than 50
   records; a command puts its record last, dropping the oldest record when
   the history was full and keeping all of them otherwise;
   clearCommandHistory leaves it empty; getCommandHistory returns the records
   of that moment, and no later command or clearing changes what it
   returned. *)
CommandStep == onOff'.issued = onOff.issued + 1

ClearStep == onOff'.command = "clearCommandHistory"

GetStep == onOff'.command = "getCommandHistory"

NewestLast ==
    /\ commandHistory' # << >>
    /\ commandHistory'[Len(commandHistory')].command = onOff'.command

OldestDropped ==
    IF Len(commandHistory) = 50
    THEN /\ Len(commandHistory') = 50
         /\ \A i \in 1 .. 49 : commandHistory'[i] = commandHistory[i + 1]
    ELSE /\ Len(commandHistory') = Len(commandHistory) + 1
         /\ \A i \in 1 .. Len(commandHistory) :
                commandHistory'[i] = commandHistory[i]

HistoryStep ==
    /\ CommandStep =>
           (NewestLast /\ OldestDropped
               /\ snapshot'.records = snapshot.records)
    /\ ClearStep =>
           (commandHistory' = << >> /\ snapshot'.records = snapshot.records)
    /\ GetStep => snapshot'.records = commandHistory

C37_HistoryCapped ==
    /\ [](Len(commandHistory) <= 50)
    /\ [][HistoryStep]_vars

C37_Witness ==
    /\ Len(commandHistory) = 50
    /\ onOff.issued >= 2
    /\ snapshot.taken
    /\ Len(snapshot.records) = 50
    /\ snapshot.records # commandHistory

(* C38: a call of setOn, setOff or toggle never throws, whether or not its
   handler threw; the command is in the history after the call, as the last
   record of a history one longer or, at the cap, as long; and a call whose
   handler does not throw is handled, or warned about when there is no
   handler, whatever earlier handlers threw. *)
HandledStep ==
    /\ ~thrown'
    /\ NewestLast
    /\ Len(commandHistory') =
           (IF Len(commandHistory) = 50 THEN 50 ELSE Len(commandHistory) + 1)
    /\ onOff'.raised => onOff'.outcome = "caught"
    /\ ~onOff'.raised =>
           onOff'.outcome =
               (IF onOff'.command = "toggle" /\ ~onOff.onToggle
                THEN "warned" ELSE "handled")

C38_HandlerErrorsCaught == [][CommandStep => HandledStep]_vars

C38_Witness ==
    /\ onOff.errorsLogged >= 1
    /\ onOff.outcome = "handled"
    /\ onOff.issued >= 2
    /\ ~thrown
    /\ Len(commandHistory) >= 2

====
